---- MODULE Spec2Model ----
(***************************************************************************)
(* Model of the redline & annotation engine of lease-review                *)
(* (src/redline.py).  Text is a sequence of one-character strings; a       *)
(* paragraph (block) is the sequence of the children of its w:p element:   *)
(* runs (w:r), tracked deletions (w:del) and tracked insertions (w:ins).   *)
(* A document is its body paragraphs (doc.paragraphs) plus the paragraphs  *)
(* of its table cells (doc.tables), which python-docx enumerates apart.    *)
(***************************************************************************)
EXTENDS Integers, Sequences, FiniteSets, TLC

(* ------------------------------------------------------------------ *)
(* Characters                                                         *)
(* ------------------------------------------------------------------ *)

\* "FLAG" stands for U+2691, "EMDASH" for U+2014, "DIAMOND" for U+2756:
\* each is one character of the text.
LowerCase == <<"a","b","c","d","e","f","g","h","i","j","k","l","m","n","o","p","q","r","s","t","u","v","w","x","y","z">>
UpperCase == <<"A","B","C","D","E","F","G","H","I","J","K","L","M","N","O","P","Q","R","S","T","U","V","W","X","Y","Z">>

WhiteSpace == {" ", "\t", "\n"}

LowerSet == {LowerCase[k] : k \in 1..Len(LowerCase)}
UpperSet == {UpperCase[k] : k \in 1..Len(UpperCase)}

LowerChar(c) ==
    IF c \in UpperSet
    THEN LowerCase[CHOOSE k \in 1..Len(UpperCase) : UpperCase[k] = c]
    ELSE c

UpperChar(c) ==
    IF c \in LowerSet
    THEN UpperCase[CHOOSE k \in 1..Len(LowerCase) : LowerCase[k] = c]
    ELSE c

\* the text whose k-th character is f[k], as a sequence
Chars(f) == SubSeq(f, 1, Len(f))

\* str.lower()
Lower(s) == Chars([k \in 1..Len(s) |-> LowerChar(s[k])])

\* str.upper()
Upper(s) == Chars([k \in 1..Len(s) |-> UpperChar(s[k])])

(* ------------------------------------------------------------------ *)
(* Text helpers                                                       *)
(* ------------------------------------------------------------------ *)

\* s[:n]
Take(s, n) == SubSeq(s, 1, IF n < Len(s) THEN n ELSE Len(s))

\* s[n:]
Drop(s, n) == SubSeq(s, n + 1, Len(s))

\* sub occurs in s at 0-based offset k
MatchAt(sub, s, k) == k + Len(sub) <= Len(s) /\ \A i \in 1..Len(sub) : s[k + i] = sub[i]

\* sub in s
Contains(sub, s) == \E k \in 0..(Len(s) - Len(sub)) : \A i \in 1..Len(sub) : s[k + i] = sub[i]

\* s.index(sub): 0-based offset of the first occurrence
Index(sub, s) ==
    CHOOSE k \in 0..(Len(s) - Len(sub)) :
        MatchAt(sub, s, k) /\ \A j \in 0..(k - 1) : ~MatchAt(sub, s, j)

\* s.startswith(p)
StartsWith(s, p) == MatchAt(p, s, 0)

Least(S) == CHOOSE k \in S : \A j \in S : k <= j

\* s holds nothing but whitespace
Blank(s) == \A k \in 1..Len(s) : s[k] \in WhiteSpace

\* the position of the first and of the last character of s that is no whitespace
FirstInk(s) ==
    CHOOSE k \in 1..Len(s) : s[k] \notin WhiteSpace /\ \A j \in 1..(k - 1) : s[j] \in WhiteSpace
LastInk(s) ==
    Len(s) - (CHOOSE d \in 0..(Len(s) - 1) :
                 s[Len(s) - d] \notin WhiteSpace /\ \A j \in 0..(d - 1) : s[Len(s) - j] \in WhiteSpace)

\* str.lstrip()
LStrip(s) == IF Blank(s) THEN <<>> ELSE SubSeq(s, FirstInk(s), Len(s))

\* str.strip()
Strip(s) == IF Blank(s) THEN <<>> ELSE SubSeq(s, FirstInk(s), LastInk(s))

\* re.sub(r'\s+', ' ', s): every run of whitespace becomes one space
\* (the first whitespace of a run becomes the space, the rest are dropped)
IsKept(c) == c # "DROPPED"
Collapse(s) ==
    SelectSeq([k \in 1..Len(s) |->
                  IF s[k] \notin WhiteSpace THEN s[k]
                  ELSE IF k > 1 /\ s[k - 1] \in WhiteSpace THEN "DROPPED" ELSE " "],
              IsKept)

\* _normalize
Normalize(s) == Strip(Collapse(s))

\* the first word of s (s has no leading whitespace)
FirstWord(s) ==
    LET gaps == {k \in 1..Len(s) : s[k] \in WhiteSpace} IN
    IF gaps = {} THEN s ELSE SubSeq(s, 1, Least(gaps) - 1)

\* str.split(): the whitespace-separated words
RECURSIVE Split(_)
Split(s) ==
    LET t == LStrip(s) IN
    IF t = <<>> THEN <<>>
    ELSE LET w == FirstWord(t) IN <<w>> \o Split(Drop(t, Len(w)))

\* concatenation of a sequence of texts
RECURSIVE Join(_)
Join(ts) == IF ts = <<>> THEN <<>> ELSE Head(ts) \o Join(Tail(ts))

\* [w for w in words if len(w) > 3]
RECURSIVE LongWords(_)
LongWords(ws) ==
    IF ws = <<>> THEN <<>>
    ELSE (IF Len(Head(ws)) > 3 THEN <<Head(ws)>> ELSE <<>>) \o LongWords(Tail(ws))

\* [w for w in section_name.lower().split() if len(w) > 3]
Keywords(section_name) == LongWords(Split(Lower(section_name)))

\* the set of elements of a sequence
Range(xs) == {xs[k] : k \in 1..Len(xs)}

(* ------------------------------------------------------------------ *)
(* Python dicts: insertion-ordered sequences of [k, v] entries         *)
(* ------------------------------------------------------------------ *)

DictHas(d, key) == \E n \in 1..Len(d) : d[n].k = key

\* d.get(key, default)
DictGet(d, key, default) ==
    IF DictHas(d, key) THEN d[CHOOSE n \in 1..Len(d) : d[n].k = key].v ELSE default

\* d[key] = val: an existing key keeps its place
DictPut(d, key, val) ==
    IF DictHas(d, key)
    THEN [n \in 1..Len(d) |-> IF d[n].k = key THEN [k |-> key, v |-> val] ELSE d[n]]
    ELSE Append(d, [k |-> key, v |-> val])

DictKeys(d) == {d[n].k : n \in 1..Len(d)}

(* ------------------------------------------------------------------ *)
(* Paragraphs                                                         *)
(* ------------------------------------------------------------------ *)

\* _make_run
MakeRun(text) == [kind |-> "r", text |-> text, id |-> 0]

\* _make_del
MakeDel(text, change_id) == [kind |-> "del", text |-> text, id |-> change_id]

\* _make_ins
MakeIns(text, change_id) == [kind |-> "ins", text |-> text, id |-> change_id]

\* a paragraph of the input document: its text in one run (none when empty)
PlainPara(text) == IF text = <<>> THEN <<>> ELSE <<MakeRun(text)>>

\* "".join(run.text for run in para.runs), also para.text: the direct w:r
\* children only; text inside w:del and w:ins is not part of it
RunText(para) ==
    Join([n \in 1..Len(para) |-> IF para[n].kind = "r" THEN para[n].text ELSE <<>>])

\* ''.join(para._p.itertext()): every text node of the paragraph
IterText(para) == Join([n \in 1..Len(para) |-> para[n].text])

\* the w:delText of the paragraph, joined
DelText(para) ==
    Join([n \in 1..Len(para) |-> IF para[n].kind = "del" THEN para[n].text ELSE <<>>])

(* ------------------------------------------------------------------ *)
(* _apply_to_para                                                     *)
(* ------------------------------------------------------------------ *)

\* mutant: the insertion reuses the ID of the deletion
RewrittenOneId(actual_full, actual_find, replace_text, change_id) ==
    LET idx    == Index(actual_find, actual_full)
        before == Take(actual_full, idx)
        after  == Drop(actual_full, idx + Len(actual_find))
    IN  (IF before # <<>> THEN <<MakeRun(before)>> ELSE <<>>)
        \o <<MakeDel(actual_find, change_id), MakeIns(replace_text, change_id)>>
        \o (IF after # <<>> THEN <<MakeRun(after)>> ELSE <<>>)

\* the children appended after the paragraph is emptied (pPr stays)
Rewritten(actual_full, actual_find, replace_text, change_id) ==
    LET idx    == Index(actual_find, actual_full)
        before == Take(actual_full, idx)
        after  == Drop(actual_full, idx + Len(actual_find))
    IN  (IF before # <<>> THEN <<MakeRun(before)>> ELSE <<>>)
        \o <<MakeDel(actual_find, change_id), MakeIns(replace_text, change_id + 1)>>
        \o (IF after # <<>> THEN <<MakeRun(after)>> ELSE <<>>)

\* (para after the call, new change_id, found)
ApplyToPara(para, find_text, replace_text, change_id) ==
    LET full_text == RunText(para)
        norm_full == Normalize(full_text)
        norm_find == Normalize(find_text)
    IN  IF Contains(find_text, full_text)
        THEN [para |-> Rewritten(full_text, find_text, replace_text, change_id),
              change_id |-> change_id + 2, ok |-> TRUE]
        ELSE IF Contains(norm_find, norm_full)
        THEN [para |-> Rewritten(norm_full, norm_find, replace_text, change_id),
              change_id |-> change_id + 2, ok |-> TRUE]
        ELSE [para |-> para, change_id |-> change_id, ok |-> FALSE]

(* ------------------------------------------------------------------ *)
(* Comment annotation                                                 *)
(* ------------------------------------------------------------------ *)

\* the scores are kept in hundredths: 0.40 is 40, 1.0 is 100
SCORE_NAME == 40
SCORE_ALL_KEYWORDS == 30
SCORE_ANY_KEYWORD == 10
SCORE_HEADING == 30
SCORE_SHORT == 15
HEADING_LEN == 80
SHORT_LEN == 160
SCORE_MAX == 100
CONFIDENCE_THRESHOLD == 80
BOTTOM == 999999
TABLE_POS == 999998
TARGET_LIMIT == 999990
NoTarget == -1

Min(a, b) == IF a < b THEN a ELSE b

\* _comment_confidence with the two length bonuses exchanged
CommentConfidenceBonusesExchanged(para_text, section_name, keywords) ==
    LET t      == Strip(Lower(para_text))
        sn     == Lower(section_name)
        length == Len(Strip(para_text))
        s1 == IF Contains(sn, t) THEN SCORE_NAME ELSE 0
        s2 == IF keywords # <<>> /\ \A n \in 1..Len(keywords) : Contains(keywords[n], t)
              THEN SCORE_ALL_KEYWORDS
              ELSE IF keywords # <<>> /\ \E n \in 1..Len(keywords) : Contains(keywords[n], t)
              THEN SCORE_ANY_KEYWORD
              ELSE 0
        s3 == IF length <= HEADING_LEN THEN SCORE_SHORT
              ELSE IF length <= SHORT_LEN THEN SCORE_HEADING
              ELSE 0
    IN  Min(s1 + s2 + s3, SCORE_MAX)

\* _comment_confidence
CommentConfidence(para_text, section_name, keywords) ==
    LET t      == Strip(Lower(para_text))
        sn     == Lower(section_name)
        length == Len(Strip(para_text))
        s1 == IF Contains(sn, t) THEN SCORE_NAME ELSE 0
        s2 == IF keywords # <<>> /\ \A n \in 1..Len(keywords) : Contains(keywords[n], t)
              THEN SCORE_ALL_KEYWORDS
              ELSE IF keywords # <<>> /\ \E n \in 1..Len(keywords) : Contains(keywords[n], t)
              THEN SCORE_ANY_KEYWORD
              ELSE 0
        s3 == IF length <= HEADING_LEN THEN SCORE_HEADING
              ELSE IF length <= SHORT_LEN THEN SCORE_SHORT
              ELSE 0
    IN  Min(s1 + s2 + s3, SCORE_MAX)

\* mutant: a later block with the same score replaces the best one
RECURSIVE BestAnchorLatest(_, _, _, _, _)
BestAnchorLatest(ps, section_name, keywords, n, best) ==
    IF n >= Len(ps) THEN best
    ELSE LET text  == RunText(ps[n + 1])
             score == CommentConfidence(text, section_name, keywords)
         IN  IF Strip(text) # <<>> /\ score >= best.score
             THEN BestAnchorLatest(ps, section_name, keywords, n + 1, [idx |-> n, score |-> score])
             ELSE BestAnchorLatest(ps, section_name, keywords, n + 1, best)

\* the scoring loop of _insert_comment_annotation from paragraph index n
\* (0-based) on; best is (best_para_idx, best_score), best_para being None
\* exactly when best_para_idx is still BOTTOM
RECURSIVE BestAnchor(_, _, _, _, _)
BestAnchor(ps, section_name, keywords, n, best) ==
    IF n >= Len(ps) THEN best
    ELSE LET text  == RunText(ps[n + 1])
             score == CommentConfidence(text, section_name, keywords)
         IN  IF Strip(text) # <<>> /\ score > best.score
             THEN BestAnchor(ps, section_name, keywords, n + 1, [idx |-> n, score |-> score])
             ELSE BestAnchor(ps, section_name, keywords, n + 1, best)

MARKER == <<"FLAG"," ","V","I","P"," ","L","E","G","A","L"," ","R","E","V","I","E","W"," ","EMDASH"," ">>
STD_SEP == <<" "," ","|"," "," ","V","I","P"," ","S","T","A","N","D","A","R","D",":"," ">>

\* the text of the annotation's run
AnnotationText(section_name, issue_text, vip_standard) ==
    MARKER \o Upper(section_name) \o <<":", " ">> \o issue_text
    \o (IF vip_standard # <<>> THEN STD_SEP \o vip_standard ELSE <<>>)

\* the anchor chosen: the explicit target when it is a valid index, else
\* the best-scoring paragraph
ChooseAnchor(ps, section_name, target_para_idx) ==
    IF target_para_idx # NoTarget /\ 0 <= target_para_idx /\ target_para_idx < Len(ps)
    THEN [idx |-> target_para_idx, score |-> SCORE_MAX]
    ELSE BestAnchor(ps, section_name, Keywords(section_name), 0, [idx |-> BOTTOM, score |-> 0])

\* mutant: the annotation goes after the anchor instead of before it
InsertCommentAnnotationAfter(ps, section_name, issue_text, vip_standard, target_para_idx) ==
    LET best == ChooseAnchor(ps, section_name, target_para_idx)
        comment_para == <<MakeRun(AnnotationText(section_name, issue_text, vip_standard))>>
    IN  IF best.score >= CONFIDENCE_THRESHOLD /\ best.idx # BOTTOM
        THEN [paras |-> SubSeq(ps, 1, best.idx + 1) \o <<comment_para>>
                        \o SubSeq(ps, best.idx + 2, Len(ps)),
              idx |-> best.idx]
        ELSE [paras |-> Append(ps, comment_para), idx |-> BOTTOM]

\* _insert_comment_annotation: (paragraphs after the call, returned index)
InsertCommentAnnotation(ps, section_name, issue_text, vip_standard, target_para_idx) ==
    LET best == ChooseAnchor(ps, section_name, target_para_idx)
        comment_para == <<MakeRun(AnnotationText(section_name, issue_text, vip_standard))>>
    IN  IF best.score >= CONFIDENCE_THRESHOLD /\ best.idx # BOTTOM
        THEN [paras |-> SubSeq(ps, 1, best.idx) \o <<comment_para>>
                        \o SubSeq(ps, best.idx + 1, Len(ps)),
              idx |-> best.idx]
        ELSE [paras |-> Append(ps, comment_para), idx |-> BOTTOM]

(* ------------------------------------------------------------------ *)
(* Bounds and input catalogues                                        *)
(* ------------------------------------------------------------------ *)

MaxRedlines == 2
MaxIssues == 2
MaxParas == 2
MaxCells == 1
MaxAdditional == 2

Rent == <<"R","e","n","t">>
TaxA == <<"T","a","x",":","A">>

\* the redline requests an invocation draws from, in this order
RedlineCatalogue ==
    << [section |-> Rent, find |-> <<"b">>,     replace |-> <<"c">>, reason |-> <<"w">>],
       [section |-> Rent, find |-> <<"a">>,     replace |-> <<"c">>, reason |-> <<>>],
       [section |-> Rent, find |-> <<"a","a">>, replace |-> <<"b">>, reason |-> <<"w">>],
       [section |-> Rent, find |-> <<"a">>,     replace |-> <<>>,    reason |-> <<>>],
       [section |-> TaxA, find |-> <<"a">>,     replace |-> <<"c">>, reason |-> <<>>] >>

\* the review items an invocation draws from
IssueCatalogue ==
    << [section |-> Rent, priority |-> "High", status |-> "fail", issue |-> <<"x">>,
        vip_standard |-> <<>>, lease_says |-> <<>>],
       [section |-> TaxA, priority |-> "Medium", status |-> "review", issue |-> <<"y">>,
        vip_standard |-> <<"z">>, lease_says |-> <<>>],
       [section |-> Rent, priority |-> "Low", status |-> "fail", issue |-> <<>>,
        vip_standard |-> <<>>, lease_says |-> <<"R","e","n","t">>] >>

\* filler text of n characters
Pad(n) == Chars([k \in 1..n |-> "x"])

\* a paragraph of 162 characters that names the topic Rent: too long to be
\* a short block (score 0.70)
LongPara == <<"b"," ","r","e","n","t"," ">> \o Pad(155)

\* a paragraph of 85 characters that names the topic Rent: short, but not
\* heading-like (score 0.85)
ShortPara == <<"R","e","n","t"," ">> \o Pad(80)

\* the body paragraphs a document draws from, in this order
ParaCatalogue == << LongPara, ShortPara, <<"a","b","a">> >>

\* the table-cell paragraph a document may hold
CellText == <<"a">>

AdditionalItem == [title |-> <<"t">>, concern |-> <<"a">>, suggested_action |-> <<>>]

\* the additional issues an invocation draws from, in this order: the second
\* has no title and suggests an action
AdditionalCatalogue ==
    << AdditionalItem, [title |-> <<>>, concern |-> <<"b">>, suggested_action |-> <<"c">>] >>

\* the elements of cat at the indexes S, in catalogue order
RECURSIVE Pick(_, _, _)
Pick(cat, S, n) ==
    IF n > Len(cat) THEN <<>>
    ELSE (IF n \in S THEN <<cat[n]>> ELSE <<>>) \o Pick(cat, S, n + 1)

\* the subsequences of cat of at most max elements
SubLists(cat, max) ==
    {Pick(cat, S, 1) : S \in {T \in SUBSET (1..Len(cat)) : Cardinality(T) <= max}}

Copies(x, max) == {[n \in 1..m |-> x] : m \in 0..max}

(* ------------------------------------------------------------------ *)
(* State                                                              *)
(* ------------------------------------------------------------------ *)

VARIABLES
    redlines,           \* argument: the redline requests
    issues,             \* argument: the review items
    additional_issues,  \* argument: the additional issues
    input_paras,        \* the body paragraphs of the input file
    input_cells,        \* the table-cell paragraphs of the input file
    paras,              \* doc.paragraphs
    cells,              \* the paragraphs of the cells of doc.tables, in order
    change_id,
    applied,
    comments,
    section_actions,    \* dict section -> "redline" | "comment" | "both"
    find_to_section,    \* dict find text (lowered, 80 chars) -> section
    section_positions,  \* function section -> paragraph index
    saved,              \* the output file: <<>> before doc.save
    pc,                 \* the part of apply_redlines about to run
    idx,                \* 1-based index of the next redline or issue
    written,            \* history: the change IDs written, in order
    annotated,          \* history: (section, returned index, target) per annotation
    prescan,            \* history: section_positions when Step 1 starts
    rescan,             \* history: final_positions before the merge
    call,               \* a call of a pure function: its name and arguments
    result,             \* what the call returned
    JOBS,               \* src/app.py: job_id -> the job's entry
    thread,             \* job_id -> where the job's analysis thread stands
    response            \* what the last request was answered

vars == <<redlines, issues, additional_issues, input_paras, input_cells, paras, cells,
          change_id, applied, comments, section_actions, find_to_section,
          section_positions, saved, pc, idx, written, annotated, prescan, rescan,
          call, result, JOBS, thread, response>>

\* a specification of apply_redlines follows no call of a pure function
pure == <<call, result>>

\* the state of the web application around the engine
web == <<JOBS, thread, response>>

NoResponse == [route |-> "none"]

\* no review job was created
NoJobs ==
    /\ JOBS = <<>>
    /\ thread = <<>>
    /\ response = NoResponse
NoCall == [op |-> "none"]
\* result is <<>> until the call returns, then <<value>>
NoResult == <<>>

inputs == <<redlines, issues, additional_issues, input_paras, input_cells>>

\* section_positions.get(sec, default)
PosGet(f, sec, default) == IF sec \in DOMAIN f THEN f[sec] ELSE default

\* section_positions[sec] = val
PosPut(f, sec, val) == [x \in DOMAIN f \cup {sec} |-> IF x = sec THEN val ELSE f[x]]

NoPositions == [x \in {} |-> 0]

Init ==
    /\ redlines \in SubLists(RedlineCatalogue, MaxRedlines)
    /\ issues \in SubLists(IssueCatalogue, MaxIssues)
    /\ additional_issues \in SubLists(AdditionalCatalogue, MaxAdditional)
    /\ input_paras \in {[n \in 1..Len(ts) |-> PlainPara(ts[n])] :
                            ts \in SubLists(ParaCatalogue, MaxParas)}
    /\ input_cells \in Copies(PlainPara(CellText), MaxCells)
    /\ paras = input_paras
    /\ cells = input_cells
    /\ change_id = 1
    /\ applied = 0
    /\ comments = 0
    /\ section_actions = <<>>
    /\ find_to_section = <<>>
    /\ section_positions = NoPositions
    /\ saved = <<>>
    /\ pc = "prescan"
    /\ idx = 1
    /\ written = <<>>
    /\ annotated = <<>>
    /\ prescan = NoPositions
    /\ rescan = NoPositions
    /\ call = NoCall
    /\ result = NoResult
    /\ NoJobs

(* ------------------------------------------------------------------ *)
(* Pre-scan of the original document                                  *)
(* ------------------------------------------------------------------ *)

None == -1

\* re.sub(r'\s+', ' ', ''.join(para._p.itertext()).lower())
ParaFullText(para) == Collapse(Lower(IterText(para)))

\* index (0-based) of the first paragraph whose full text holds cand_norm
FirstParaWith(cand_norm, ps) ==
    IF \E n \in 1..Len(ps) : Contains(cand_norm, ParaFullText(ps[n]))
    THEN (CHOOSE n \in 1..Len(ps) :
              /\ Contains(cand_norm, ParaFullText(ps[n]))
              /\ \A m \in 1..(n - 1) : ~Contains(cand_norm, ParaFullText(ps[m]))) - 1
    ELSE None

\* the find-text pre-scan, from request n on
RECURSIVE PreScanFrom(_, _, _, _)
PreScanFrom(rs, n, ps, pos) ==
    IF n > Len(rs) THEN pos
    ELSE LET find_text == Lower(Strip(rs[n].find))
             sec       == rs[n].section
             find_norm == Strip(Collapse(find_text))
             para_idx  == FirstParaWith(find_norm, ps)
         IN  IF find_text = <<>> \/ sec = <<>> \/ para_idx = None
                \/ ~(para_idx < PosGet(pos, sec, BOTTOM))
             THEN PreScanFrom(rs, n + 1, ps, pos)
             ELSE PreScanFrom(rs, n + 1, ps, PosPut(pos, sec, para_idx))

\* section_find_texts[sec]
RECURSIVE SectionFindTexts(_, _)
SectionFindTexts(rs, sec) ==
    IF rs = <<>> THEN <<>>
    ELSE (IF Head(rs).section = sec /\ sec # <<>> /\ Strip(Head(rs).find) # <<>>
          THEN <<Lower(Strip(Head(rs).find))>> ELSE <<>>)
         \o SectionFindTexts(Tail(rs), sec)

QuoteChars == {"'", "LSQUO", "RSQUO", "LDQUO", "RDQUO", "\""}
PlainQuotes == {"'", "\""}
QUOTED_MIN == 4
QUOTED_MAX == 60
SNIPPET_LEN == 60
CANDIDATE_MIN == 4
FIND_KEY_LEN == 80

\* the group ([^'"]{4,60}) can take n characters after the quote at p
QuotedFits(s, p, n) ==
    /\ p + n + 1 <= Len(s)
    /\ \A k \in (p + 1)..(p + n) : s[k] \notin PlainQuotes
    /\ s[p + n + 1] \in QuoteChars

\* the quoted-substring pattern matches with its opening quote at p
QuotedAt(s, p) ==
    s[p] \in QuoteChars /\ \E n \in QUOTED_MIN..QUOTED_MAX : QuotedFits(s, p, n)

\* re.findall of the quoted-substring pattern, scanning from position p: the
\* leftmost match, its group as long as it can be, then on after the match
RECURSIVE FindQuoted(_, _)
FindQuoted(s, p) ==
    LET starts == {q \in p..Len(s) : QuotedAt(s, q)} IN
    IF starts = {} THEN <<>>
    ELSE LET q == Least(starts)
             n == CHOOSE n \in QUOTED_MIN..QUOTED_MAX :
                      /\ QuotedFits(s, q, n)
                      /\ \A m \in (n + 1)..QUOTED_MAX : ~QuotedFits(s, q, m)
         IN  <<SubSeq(s, q + 1, q + n)>> \o FindQuoted(s, q + n + 2)

\* [q.lower() for q in quoted if len(q) > 4]
RECURSIVE LoweredLong(_)
LoweredLong(qs) ==
    IF qs = <<>> THEN <<>>
    ELSE (IF Len(Head(qs)) > 4 THEN <<Lower(Head(qs))>> ELSE <<>>) \o LoweredLong(Tail(qs))

\* section_lease_says.get(sec, []): the snippets of the last item of the section
RECURSIVE SectionLeaseSays(_, _, _)
SectionLeaseSays(its, sec, acc) ==
    IF its = <<>> THEN acc
    ELSE LET ls == Strip(Head(its).lease_says) IN
         IF Head(its).section # sec \/ sec = <<>> \/ ls = <<>>
         THEN SectionLeaseSays(Tail(its), sec, acc)
         ELSE SectionLeaseSays(Tail(its), sec,
                  <<Lower(Take(ls, SNIPPET_LEN))>> \o LoweredLong(FindQuoted(ls, 1)))

\* _first_match
RECURSIVE FirstMatch(_, _)
FirstMatch(candidates, ps) ==
    IF candidates = <<>> THEN None
    ELSE LET cand == Head(candidates)
             pi   == FirstParaWith(Strip(Collapse(Lower(cand))), ps)
         IN  IF cand = <<>> \/ Len(cand) < CANDIDATE_MIN \/ pi = None
             THEN FirstMatch(Tail(candidates), ps)
             ELSE pi

\* max(kws, key=len): the first keyword of the greatest length
LongestKeyword(kws) ==
    kws[CHOOSE n \in 1..Len(kws) :
            /\ \A m \in 1..Len(kws) : Len(kws[m]) <= Len(kws[n])
            /\ \A m \in 1..(n - 1) : Len(kws[m]) < Len(kws[n])]

\* pass 3: the first paragraph whose text holds every keyword
AllKeywordsPara(kws, ps) ==
    LET hit(n) == \A k \in 1..Len(kws) : Contains(kws[k], Lower(RunText(ps[n]))) IN
    IF \E n \in 1..Len(ps) : hit(n)
    THEN (CHOOSE n \in 1..Len(ps) : hit(n) /\ \A m \in 1..(n - 1) : ~hit(m)) - 1
    ELSE None

\* the position the keyword fallback finds for sec, or None
KeywordPosition(sec, rs, its, ps) ==
    LET kws   == Keywords(sec)
        pass1 == FirstMatch(SectionFindTexts(rs, sec), ps)
        pass2 == IF pass1 = None THEN FirstMatch(SectionLeaseSays(its, sec, <<>>), ps)
                 ELSE pass1
        pass3 == IF pass2 = None /\ kws # <<>> THEN AllKeywordsPara(kws, ps) ELSE pass2
        pass4 == IF pass3 = None /\ kws # <<>> THEN FirstMatch(<<LongestKeyword(kws)>>, ps)
                 ELSE pass3
    IN  pass4

\* all_section_names
AllSectionNames(rs, its) ==
    {rs[n].section : n \in 1..Len(rs)} \cup {its[n].section : n \in 1..Len(its)}

\* section_positions after the keyword fallback
KeywordFallbackPositions(pos, rs, its, ps) ==
    LET todo == {sec \in AllSectionNames(rs, its) :
                     /\ sec # <<>>
                     /\ sec \notin DOMAIN pos
                     /\ KeywordPosition(sec, rs, its, ps) # None}
    IN  [sec \in DOMAIN pos \cup todo |->
             IF sec \in DOMAIN pos THEN pos[sec] ELSE KeywordPosition(sec, rs, its, ps)]

\* the loop that runs next: a loop over an empty list is no step
AfterReview(n) == IF n <= Len(issues) THEN "review" ELSE "additional"
AfterApply(n) == IF n <= Len(redlines) THEN "apply" ELSE AfterReview(1)
AfterKeyword == AfterApply(1)

PreScan ==
    /\ pc = "prescan"
    /\ section_positions' = PreScanFrom(redlines, 1, paras, section_positions)
    /\ pc' = "keyword"
    /\ UNCHANGED <<inputs, pure, web, paras, cells, change_id, applied, comments, section_actions,
                   find_to_section, saved, idx, written, annotated, prescan, rescan>>

KeywordFallback ==
    /\ pc = "keyword"
    /\ section_positions' = KeywordFallbackPositions(section_positions, redlines, issues, paras)
    /\ prescan' = section_positions'
    /\ pc' = AfterKeyword
    /\ idx' = 1
    /\ UNCHANGED <<inputs, pure, web, paras, cells, change_id, applied, comments, section_actions,
                   find_to_section, saved, written, annotated, rescan>>

(* ------------------------------------------------------------------ *)
(* Step 1: apply the redlines                                         *)
(* ------------------------------------------------------------------ *)

DEFAULT_ISSUE == <<"R","e","v","i","e","w"," ","r","e","q","u","i","r","e","d"," ","p","e","r"," ","V","I","P"," ","s","t","a","n","d","a","r","d","s">>

\* _record_action storing the latest action whatever is recorded
RecordActionLatest(actions, sec, action) == DictPut(actions, sec, action)

\* _record_action
RecordAction(actions, sec, action) ==
    LET existing == DictGet(actions, sec, "none") IN
    IF existing = "none" THEN DictPut(actions, sec, action)
    ELSE IF existing # action THEN DictPut(actions, sec, "both")
    ELSE actions

\* issues_by_section.get(sec, {}): the last item of the section
NoIssue == [issue |-> <<>>, vip_standard |-> <<>>]

RECURSIVE IssuesBySection(_, _, _)
IssuesBySection(its, sec, acc) ==
    IF its = <<>> THEN acc
    ELSE IF sec # <<>> /\ Head(its).section = sec
    THEN IssuesBySection(Tail(its), sec, Head(its))
    ELSE IssuesBySection(Tail(its), sec, acc)

\* the position recorded when a body paragraph matches: the first match of
\* the request sets it, later matches leave it
ParaMatchPosition(positions, section, para_idx, found) ==
    IF ~found THEN PosPut(positions, section, para_idx) ELSE positions

\* the position recorded when a table-cell paragraph matches
CellMatchPosition(positions, section) ==
    IF PosGet(positions, section, BOTTOM) >= TABLE_POS
    THEN PosPut(positions, section, TABLE_POS) ELSE positions

\* the loop over doc.paragraphs, from paragraph n (0-based) on
RECURSIVE ApplyParas(_, _, _, _, _)
ApplyParas(st, n, find, replace, section) ==
    IF n >= Len(st.paras) THEN st
    ELSE LET r == ApplyToPara(st.paras[n + 1], find, replace, st.change_id) IN
         IF r.ok
         THEN ApplyParas([st EXCEPT !.paras[n + 1] = r.para,
                                    !.change_id = r.change_id,
                                    !.applied = @ + 1,
                                    !.actions = RecordAction(@, section, "redline"),
                                    !.positions = ParaMatchPosition(@, section, n, st.found),
                                    !.found = TRUE,
                                    !.written = @ \o <<st.change_id, st.change_id + 1>>],
                         n + 1, find, replace, section)
         ELSE ApplyParas(st, n + 1, find, replace, section)

\* the loop over the table cells with the rewrites left out of applied
RECURSIVE ApplyCellsUncounted(_, _, _, _, _)
ApplyCellsUncounted(st, n, find, replace, section) ==
    IF n >= Len(st.cells) THEN st
    ELSE LET r == ApplyToPara(st.cells[n + 1], find, replace, st.change_id) IN
         IF r.ok
         THEN ApplyCellsUncounted([st EXCEPT !.cells[n + 1] = r.para,
                                             !.change_id = r.change_id,
                                             !.actions = RecordAction(@, section, "redline"),
                                             !.positions = CellMatchPosition(@, section),
                                             !.found = TRUE,
                                             !.written = @ \o <<st.change_id, st.change_id + 1>>],
                                  n + 1, find, replace, section)
         ELSE ApplyCellsUncounted(st, n + 1, find, replace, section)

\* the loop over the paragraphs of the table cells, from cell paragraph n on
RECURSIVE ApplyCells(_, _, _, _, _)
ApplyCells(st, n, find, replace, section) ==
    IF n >= Len(st.cells) THEN st
    ELSE LET r == ApplyToPara(st.cells[n + 1], find, replace, st.change_id) IN
         IF r.ok
         THEN ApplyCells([st EXCEPT !.cells[n + 1] = r.para,
                                    !.change_id = r.change_id,
                                    !.applied = @ + 1,
                                    !.actions = RecordAction(@, section, "redline"),
                                    !.positions = CellMatchPosition(@, section),
                                    !.found = TRUE,
                                    !.written = @ \o <<st.change_id, st.change_id + 1>>],
                         n + 1, find, replace, section)
         ELSE ApplyCells(st, n + 1, find, replace, section)

\* mutant: only a request without find text is passed over
SkippedWithoutFind(find, replace) == find = <<>>

\* "if not find or not replace or find == replace: continue"
Skipped(find, replace) == find = <<>> \/ replace = <<>> \/ find = replace

\* mutant: the fallback ignores the action already recorded for the section
FallbackDueIgnoringAction(found, actions, section) == ~found

\* the fallback annotation is due: nothing matched and the section has no action
FallbackDue(found, actions, section) ==
    ~found /\ DictGet(actions, section, "none") \notin {"redline", "comment", "both"}

\* the position kept after an annotation returned para_idx
KeepEarliest(positions, section, para_idx) ==
    IF para_idx < PosGet(positions, section, BOTTOM)
    THEN PosPut(positions, section, para_idx) ELSE positions

\* the text of the fallback annotation: issue or reason or the default
FallbackIssueText(issue_obj, reason) ==
    IF issue_obj.issue # <<>> THEN issue_obj.issue
    ELSE IF reason # <<>> THEN reason
    ELSE DEFAULT_ISSUE

\* one iteration of "for redline in redlines"
ApplyRedline ==
    /\ pc = "apply"
    /\ idx <= Len(redlines)
    /\ LET redline == redlines[idx]
           find    == Strip(redline.find)
           replace == Strip(redline.replace)
           section == redline.section
           st0 == [paras |-> paras, cells |-> cells, change_id |-> change_id,
                   applied |-> applied, actions |-> section_actions,
                   positions |-> section_positions, found |-> FALSE,
                   written |-> written]
           st1 == ApplyParas(st0, 0, find, replace, section)
           st2 == ApplyCells(st1, 0, find, replace, section)
           issue_obj == IssuesBySection(issues, section, NoIssue)
           ann == InsertCommentAnnotation(st2.paras, section,
                      FallbackIssueText(issue_obj, redline.reason),
                      issue_obj.vip_standard, NoTarget)
       IN  IF Skipped(find, replace)
           THEN UNCHANGED <<paras, cells, change_id, applied, comments, section_actions,
                            find_to_section, section_positions, written, annotated>>
           ELSE /\ find_to_section' =
                       IF section # <<>>
                       THEN DictPut(find_to_section, Take(Lower(find), FIND_KEY_LEN), section)
                       ELSE find_to_section
                /\ cells' = st2.cells
                /\ change_id' = st2.change_id
                /\ applied' = st2.applied
                /\ written' = st2.written
                /\ IF FallbackDue(st2.found, st2.actions, section)
                   THEN /\ paras' = ann.paras
                        /\ section_actions' = RecordAction(st2.actions, section, "comment")
                        /\ section_positions' = KeepEarliest(st2.positions, section, ann.idx)
                        /\ comments' = comments + 1
                        /\ annotated' = Append(annotated, [section |-> section, idx |-> ann.idx,
                                                          target |-> NoTarget])
                   ELSE /\ paras' = st2.paras
                        /\ section_actions' = st2.actions
                        /\ section_positions' = st2.positions
                        /\ UNCHANGED <<comments, annotated>>
    /\ idx' = IF idx + 1 <= Len(redlines) THEN idx + 1 ELSE 1
    /\ pc' = AfterApply(idx + 1)
    /\ UNCHANGED <<inputs, pure, web, saved, prescan, rescan>>

(* ------------------------------------------------------------------ *)
(* Step 2: comments for High/Medium issues with no comment yet        *)
(* ------------------------------------------------------------------ *)

\* mutant: Step 2 does not look at the action recorded for the section
ReviewSkippedByStatusOnly(issue, actions) ==
    \/ issue.status = "pass"
    \/ issue.priority \notin {"High", "Medium"}

\* "if status == 'pass' or priority not in ('High', 'Medium'): continue" and
\* "if section_actions.get(sec) in ('comment', 'both'): continue"
ReviewSkipped(issue, actions) ==
    \/ issue.status = "pass"
    \/ issue.priority \notin {"High", "Medium"}
    \/ DictGet(actions, issue.section, "none") \in {"comment", "both"}

\* target_idx: the recorded position when a redline was applied for the section
TargetIdx(positions, actions, sec) ==
    IF /\ sec \in DOMAIN positions
       /\ positions[sec] < TARGET_LIMIT
       /\ DictGet(actions, sec, "none") = "redline"
    THEN positions[sec] ELSE NoTarget

\* one iteration of "for issue in issues"
StandingReview ==
    /\ pc = "review"
    /\ idx <= Len(issues)
    /\ LET issue == issues[idx]
           sec   == issue.section
           issue_text == IF issue.issue # <<>> THEN issue.issue ELSE DEFAULT_ISSUE
           ann == InsertCommentAnnotation(paras, sec, issue_text, issue.vip_standard,
                      TargetIdx(section_positions, section_actions, sec))
       IN  IF ReviewSkipped(issue, section_actions)
           THEN UNCHANGED <<paras, section_actions, section_positions, comments, annotated>>
           ELSE /\ paras' = ann.paras
                /\ section_actions' = RecordAction(section_actions, sec, "comment")
                /\ section_positions' = KeepEarliest(section_positions, sec, ann.idx)
                /\ comments' = comments + 1
                /\ annotated' = Append(annotated,
                       [section |-> sec, idx |-> ann.idx,
                        target |-> TargetIdx(section_positions, section_actions, sec)])
    /\ idx' = IF idx + 1 <= Len(issues) THEN idx + 1 ELSE 1
    /\ pc' = AfterReview(idx + 1)
    /\ UNCHANGED <<inputs, pure, web, cells, change_id, applied, find_to_section, saved, written,
                   prescan, rescan>>

(* ------------------------------------------------------------------ *)
(* Additional issues, doc.save                                        *)
(* ------------------------------------------------------------------ *)

ADDITIONAL_HEADER == <<"DIAMOND"," ","A","D","D","I","T","I","O","N","A","L"," ","V","I","P"," ","R","E","V","I","E","W"," ","I","T","E","M","S"," ","EMDASH"," ","N","O","N","-","S","T","A","N","D","A","R","D"," ","C","L","A","U","S","E","S">>
ACTION_SEP == <<" "," ","|"," "," ","A","C","T","I","O","N",":"," ">>
DEFAULT_TITLE == <<"A","d","d","i","t","i","o","n","a","l"," ","I","s","s","u","e">>

\* the paragraph appended for one additional issue
AdditionalPara(ai_item) ==
    LET title == Upper(IF ai_item.title # <<>> THEN ai_item.title ELSE DEFAULT_TITLE) IN
    <<MakeRun(<<"FLAG", " ">> \o title \o <<":", " ">> \o ai_item.concern
              \o (IF ai_item.suggested_action # <<>>
                  THEN ACTION_SEP \o ai_item.suggested_action ELSE <<>>))>>

\* the paragraphs appended with the latest issue first
AdditionalParasLatestFirst(items) ==
    IF items = <<>> THEN <<>>
    ELSE <<PlainPara(ADDITIONAL_HEADER)>>
         \o [n \in 1..Len(items) |-> AdditionalPara(items[Len(items) + 1 - n])]

\* the paragraphs appended at the end of the body
AdditionalParas(items) ==
    IF items = <<>> THEN <<>>
    ELSE <<PlainPara(ADDITIONAL_HEADER)>> \o [n \in 1..Len(items) |-> AdditionalPara(items[n])]

\* the additional-issues block and doc.save(output_path)
AdditionalIssues ==
    /\ pc = "additional"
    /\ paras' = paras \o AdditionalParas(additional_issues)
    /\ saved' = [paras |-> paras', cells |-> cells]
    /\ pc' = "rescan"
    /\ UNCHANGED <<inputs, pure, web, cells, change_id, applied, comments, section_actions,
                   find_to_section, section_positions, idx, written, annotated,
                   prescan, rescan>>

(* ------------------------------------------------------------------ *)
(* Final re-scan of the saved file, merge, return                     *)
(* ------------------------------------------------------------------ *)

\* {s.upper(): s for s in section_actions}
RECURSIVE SecUpperMap(_, _)
SecUpperMap(actions, acc) ==
    IF actions = <<>> THEN acc
    ELSE SecUpperMap(Tail(actions), DictPut(acc, Upper(Head(actions).k), Head(actions).k))

\* the first known section whose upper-cased name is a prefix of raw, or <<>>
PrefixMatch(raw, sec_upper_map) ==
    IF \E n \in 1..Len(sec_upper_map) : StartsWith(raw, sec_upper_map[n].k)
    THEN sec_upper_map[CHOOSE n \in 1..Len(sec_upper_map) :
                           /\ StartsWith(raw, sec_upper_map[n].k)
                           /\ \A m \in 1..(n - 1) : ~StartsWith(raw, sec_upper_map[m].k)].v
    ELSE <<>>

\* matched_sec of a paragraph text, <<>> when none (None and "" are both falsy)
MarkerSection(para_text, sec_upper_map) ==
    IF ~Contains(MARKER, para_text) THEN <<>>
    ELSE LET after == Drop(para_text, Index(MARKER, para_text) + Len(MARKER)) IN
         IF ~Contains(<<":">>, after) THEN <<>>
         ELSE LET raw == Upper(Strip(Take(after, Index(<<":">>, after)))) IN
              IF DictHas(sec_upper_map, raw) THEN DictGet(sec_upper_map, raw, <<>>)
              ELSE PrefixMatch(raw, sec_upper_map)

\* the section of the first find key that occurs in combined, or <<>>
DeletionSection(combined, fts) ==
    IF \E n \in 1..Len(fts) : Contains(fts[n].k, combined)
    THEN [hit |-> TRUE,
          sec |-> fts[CHOOSE n \in 1..Len(fts) :
                          /\ Contains(fts[n].k, combined)
                          /\ \A m \in 1..(n - 1) : ~Contains(fts[m].k, combined)].v]
    ELSE [hit |-> FALSE, sec |-> <<>>]

HasDeletion(para) == \E n \in 1..Len(para) : para[n].kind = "del"

\* final_positions after the paragraphs from index n (0-based) on are scanned
RECURSIVE RescanFrom(_, _, _, _, _)
RescanFrom(ps, n, final, sec_upper_map, fts) ==
    IF n >= Len(ps) THEN final
    ELSE LET para == ps[n + 1]
             matched_sec == MarkerSection(RunText(para), sec_upper_map)
             f1 == IF matched_sec # <<>> /\ n < PosGet(final, matched_sec, BOTTOM)
                   THEN PosPut(final, matched_sec, n) ELSE final
             d  == DeletionSection(Lower(DelText(para)), fts)
             f2 == IF HasDeletion(para) /\ d.hit /\ n < PosGet(f1, d.sec, BOTTOM)
                   THEN PosPut(f1, d.sec, n) ELSE f1
         IN  RescanFrom(ps, n + 1, f2, sec_upper_map, fts)

\* mutant: the re-scan position overrides the accumulated one
MergeRescanWins(positions, final) ==
    [sec \in DOMAIN final \cup DOMAIN positions |->
        IF sec \in DOMAIN final THEN final[sec] ELSE positions[sec]]

\* the merge: the lower of the accumulated and the re-scanned position
Merge(positions, final) ==
    [sec \in DOMAIN final \cup {s \in DOMAIN positions : positions[s] < PosGet(final, s, BOTTOM)} |->
        IF sec \in DOMAIN positions /\ positions[sec] < PosGet(final, sec, BOTTOM)
        THEN positions[sec] ELSE final[sec]]

\* the re-scan of the saved file, the merge and the return
ReScan ==
    /\ pc = "rescan"
    /\ rescan' = RescanFrom(saved.paras, 0, NoPositions,
                            SecUpperMap(section_actions, <<>>), find_to_section)
    /\ section_positions' = Merge(section_positions, rescan')
    /\ pc' = "done"
    /\ UNCHANGED <<inputs, pure, web, paras, cells, change_id, applied, comments, section_actions,
                   find_to_section, saved, idx, written, annotated, prescan>>

\* the summary apply_redlines returns
Summary ==
    [applied           |-> applied,
     comments          |-> comments,
     skipped           |-> 0,
     section_actions   |-> section_actions,
     section_positions |-> section_positions]

Next ==
    \/ PreScan
    \/ KeywordFallback
    \/ ApplyRedline
    \/ StandingReview
    \/ AdditionalIssues
    \/ ReScan

Spec == Init /\ [][Next]_vars

\* the re-scan with the merge into section_positions done although the scan
\* was cut short
ReScanFailsMerged ==
    /\ pc = "rescan"
    /\ \E n \in 0..Len(saved.paras) :
           rescan' = RescanFrom(SubSeq(saved.paras, 1, n), 0, NoPositions,
                                SecUpperMap(section_actions, <<>>), find_to_section)
    /\ section_positions' = Merge(section_positions, rescan')
    /\ pc' = "failed"
    /\ UNCHANGED <<inputs, pure, web, paras, cells, change_id, applied, comments, section_actions,
                   find_to_section, saved, idx, written, annotated, prescan>>

\* The re-scan raises after n paragraphs of the saved file are scanned (n = 0:
\* Document(output_path) raises): final_positions, a local of the try block,
\* holds what the scan found so far, the except branch logs the error, and
\* the summary is returned.  pc = "failed" is the return after the except
\* branch.
ReScanFails ==
    /\ pc = "rescan"
    /\ \E n \in 0..Len(saved.paras) :
           rescan' = RescanFrom(SubSeq(saved.paras, 1, n), 0, NoPositions,
                                SecUpperMap(section_actions, <<>>), find_to_section)
    /\ pc' = "failed"
    /\ UNCHANGED <<inputs, pure, web, paras, cells, change_id, applied, comments, section_actions,
                   section_positions, find_to_section, saved, idx, written, annotated, prescan>>

\* the invocations in which the re-scan may raise
SpecRescanFails == Init /\ [][Next \/ ReScanFails]_vars

(* ------------------------------------------------------------------ *)
(* Calls of the pure functions                                        *)
(* ------------------------------------------------------------------ *)

\* no invocation of apply_redlines is under way
Idle ==
    /\ redlines = <<>>
    /\ issues = <<>>
    /\ additional_issues = <<>>
    /\ input_paras = <<>>
    /\ input_cells = <<>>
    /\ paras = <<>>
    /\ cells = <<>>
    /\ change_id = 1
    /\ applied = 0
    /\ comments = 0
    /\ section_actions = <<>>
    /\ find_to_section = <<>>
    /\ section_positions = NoPositions
    /\ saved = <<>>
    /\ pc = "idle"
    /\ idx = 1
    /\ written = <<>>
    /\ annotated = <<>>
    /\ prescan = NoPositions
    /\ rescan = NoPositions
    /\ NoJobs

engine == <<redlines, issues, additional_issues, input_paras, input_cells, paras, cells,
            change_id, applied, comments, section_actions, find_to_section,
            section_positions, saved, pc, idx, written, annotated, prescan, rescan>>

\* t filled with filler text up to n characters
PadTo(t, n) == IF Len(t) >= n THEN t ELSE t \o Pad(n - Len(t))

\* the words a candidate block is made of, the topic names and the keyword
\* lists of the calls of _comment_confidence
MaxWords == 3
WordCatalogue == << <<"r","e","n","t">>, <<"t","a","x">>, <<"T","e","r","m">> >>
NameCatalogue == << Rent, <<"R","e","n","t"," ","T","e","r","m">>, <<"T","a","x">> >>

\* the lengths a block is filled up to: as it is, and both sides of each limit
BlockLengths == {0, HEADING_LEN, HEADING_LEN + 1, SHORT_LEN, SHORT_LEN + 1}

\* the candidate blocks: words joined by spaces, filled up, in or out of
\* surrounding whitespace
BlockTexts ==
    {wrap \o PadTo(Join([n \in 1..Len(ws) |-> IF n = 1 THEN ws[n] ELSE <<" ">> \o ws[n]]), len)
          \o wrap :
        ws \in SubLists(WordCatalogue, MaxWords), len \in BlockLengths, wrap \in {<<>>, <<" ">>}}

ConfidenceCalls ==
    [op : {"confidence"},
     para_text : BlockTexts,
     section_name : Range(NameCatalogue),
     keywords : {Keywords(NameCatalogue[n]) : n \in 1..Len(NameCatalogue)}]

ConfidenceInit == Idle /\ call \in ConfidenceCalls /\ result = NoResult

\* score = _comment_confidence(para.text, section_name, keywords)
Confidence ==
    /\ call.op = "confidence"
    /\ result = NoResult
    /\ result' = <<CommentConfidence(call.para_text, call.section_name, call.keywords)>>
    /\ UNCHANGED <<engine, web, call>>

SpecConfidence == ConfidenceInit /\ [][Confidence]_vars

(* ------------------------------------------------------------------ *)
(* Section order key and lease_sort_key (src/app.py)                  *)
(* ------------------------------------------------------------------ *)

\* Order keys are counted in ten-thousandths (KEY_SCALE to the unit), the
\* scale of lease_sort_key = sec_sort * 10000 + idx: 3.01 is 30100, 999.0
\* is 9990000, and position / 10000.0 is the position itself.
KEY_SCALE == 10000
ABSENT_KEY == 999 * KEY_SCALE
EXHIBIT_BASE == 800
SECTION_STEP == 1000
MINOR_STEP == 100
FRONT_MATTER_KEY == 5000
NO_POSITION == 999999


DigitChars == <<"0","1","2","3","4","5","6","7","8","9">>
DigitSet == Range(DigitChars)
RomanLetters == {"i","v","x","l","c","d","m"}

DigitVal(c) == (CHOOSE k \in 1..Len(DigitChars) : DigitChars[k] = c) - 1

\* int(g) of a run of digits
RECURSIVE ParseInt(_)
ParseInt(g) == IF g = <<>> THEN 0 ELSE 10 * ParseInt(SubSeq(g, 1, Len(g) - 1)) + DigitVal(g[Len(g)])

\* the end of the longest run of characters of S that starts at s[k]
\* (k - 1 when s[k] is not in S): a greedy S* of a regular expression
RunEnd(s, k, S) ==
    CHOOSE j \in (k - 1)..Len(s) :
        /\ \A i \in k..j : s[i] \in S
        /\ j = Len(s) \/ s[j + 1] \notin S

\* re.search(word + r'\s+' + S): the offsets where word, then whitespace,
\* then a character of S stand
WordThen(word, s, S) ==
    {k \in 0..(Len(s) - Len(word)) :
        /\ MatchAt(word, s, k)
        /\ LET w == RunEnd(s, k + Len(word) + 1, WhiteSpace)
           IN  w >= k + Len(word) + 1 /\ w < Len(s) /\ s[w + 1] \in S}

\* where the group of the leftmost such match starts
GroupStart(word, s, S) ==
    LET k == Least(WordThen(word, s, S))
    IN  RunEnd(s, k + Len(word) + 1, WhiteSpace) + 1

\* the group of the leftmost match: the longest run of S there
GroupRun(word, s, S) ==
    LET g == GroupStart(word, s, S) IN SubSeq(s, g, RunEnd(s, g, S))

roman ==
    << [k |-> <<"i">>, v |-> 1], [k |-> <<"i","i">>, v |-> 2], [k |-> <<"i","i","i">>, v |-> 3],
       [k |-> <<"i","v">>, v |-> 4], [k |-> <<"v">>, v |-> 5], [k |-> <<"v","i">>, v |-> 6],
       [k |-> <<"v","i","i">>, v |-> 7], [k |-> <<"v","i","i","i">>, v |-> 8], [k |-> <<"i","x">>, v |-> 9],
       [k |-> <<"x">>, v |-> 10], [k |-> <<"x","i">>, v |-> 11], [k |-> <<"x","i","i">>, v |-> 12],
       [k |-> <<"x","i","i","i">>, v |-> 13], [k |-> <<"x","i","v">>, v |-> 14], [k |-> <<"x","v">>, v |-> 15],
       [k |-> <<"x","v","i">>, v |-> 16], [k |-> <<"x","v","i","i">>, v |-> 17], [k |-> <<"x","v","i","i","i">>, v |-> 18],
       [k |-> <<"x","i","x">>, v |-> 19], [k |-> <<"x","x">>, v |-> 20] >>

AbsenceMarkers == {<<"9","9","9">>, <<"n","o","t"," ","f","o","u","n","d">>, <<"n","o","t"," ","a","d","d","r","e","s","s","e","d">>, <<"n","/","a">>, <<>>}
FrontMatterWords == {<<"b","a","s","i","c"," ","t","e","r","m","s">>, <<"s","u","m","m","a","r","y">>, <<"r","e","c","i","t","a","l">>, <<"p","r","e","a","m","b","l","e">>}

\* the exhibit branch: 800 + letter offset, + 0.1 for each unit of "section n"
ExhibitKey(s) ==
    LET base == IF WordThen(<<"e","x","h","i","b","i","t">>, s, LowerSet) # {}
                THEN EXHIBIT_BASE
                     + (CHOOSE n \in 1..Len(LowerCase) :
                            LowerCase[n] = s[GroupStart(<<"e","x","h","i","b","i","t">>, s, LowerSet)]) - 1
                ELSE EXHIBIT_BASE
    IN  base * KEY_SCALE
        + (IF WordThen(<<"s","e","c","t","i","o","n">>, s, DigitSet) # {}
           THEN ParseInt(GroupRun(<<"s","e","c","t","i","o","n">>, s, DigitSet)) * SECTION_STEP
           ELSE 0)

\* the article branch: roman.get(g) or (int(g) if g.isdigit() else 999)
ArticleKey(s) ==
    LET at == GroupStart(<<"a","r","t","i","c","l","e">>, s, RomanLetters \cup DigitSet)
        g  == IF s[at] \in RomanLetters
              THEN SubSeq(s, at, RunEnd(s, at, RomanLetters))
              ELSE SubSeq(s, at, RunEnd(s, at, DigitSet))
        val == IF DictHas(roman, g) THEN DictGet(roman, g, 0)
               ELSE IF \A n \in 1..Len(g) : g[n] \in DigitSet THEN ParseInt(g)
               ELSE 999
    IN  val * KEY_SCALE

\* the numeral branch with the minor part counted in tenths
NumeralKeyTenths(s) ==
    LET a == Least({k \in 1..Len(s) : s[k] \in DigitSet})
        e == RunEnd(s, a, DigitSet)
        major == ParseInt(SubSeq(s, a, e))
        dotted == e + 2 <= Len(s) /\ s[e + 1] = "." /\ s[e + 2] \in DigitSet
        minor == IF dotted THEN ParseInt(SubSeq(s, e + 2, RunEnd(s, e + 2, DigitSet))) ELSE 0
    IN  major * KEY_SCALE + minor * SECTION_STEP

\* the numeral branch: major + minor * 0.01 of the leftmost (\d+)(?:\.(\d+))?
NumeralKey(s) ==
    LET a == Least({k \in 1..Len(s) : s[k] \in DigitSet})
        e == RunEnd(s, a, DigitSet)
        major == ParseInt(SubSeq(s, a, e))
        dotted == e + 2 <= Len(s) /\ s[e + 1] = "." /\ s[e + 2] \in DigitSet
        minor == IF dotted THEN ParseInt(SubSeq(s, e + 2, RunEnd(s, e + 2, DigitSet))) ELSE 0
    IN  major * KEY_SCALE + minor * MINOR_STEP

\* _section_sort_key(lease_section), in ten-thousandths
SectionSortKey(lease_section) ==
    LET s == Lower(Strip(lease_section))
    IN  IF lease_section = <<>> THEN ABSENT_KEY
        ELSE IF s \in AbsenceMarkers THEN ABSENT_KEY
        ELSE IF Contains(<<"e","x","h","i","b","i","t">>, s) THEN ExhibitKey(s)
        ELSE IF WordThen(<<"a","r","t","i","c","l","e">>, s, RomanLetters \cup DigitSet) # {} THEN ArticleKey(s)
        ELSE IF \E k \in 1..Len(s) : s[k] \in DigitSet THEN NumeralKey(s)
        ELSE IF \E w \in FrontMatterWords : Contains(w, s) THEN FRONT_MATTER_KEY
        ELSE ABSENT_KEY

EXACT_NOT_PRESENT ==
    {<<"n","o","t"," ","a","d","d","r","e","s","s","e","d">>, <<"n","o","t"," ","s","p","e","c","i","f","i","e","d">>, <<"n","o","t"," ","a","d","d","r","e","s","s","e","d",".">>, <<"n","o","t"," ","s","p","e","c","i","f","i","e","d",".">>,
     <<"n","o","t"," ","f","o","u","n","d">>, <<"n","o","t"," ","m","e","n","t","i","o","n","e","d">>, <<"n","o","t"," ","d","i","s","c","u","s","s","e","d">>, <<"s","i","l","e","n","t">>}

IsExactlyAbsent(s) == Lower(Strip(s)) \in EXACT_NOT_PRESENT

IsVaguelyAbsent(s) ==
    LET sl == Lower(Strip(s))
    IN  /\ StartsWith(sl, <<"n","o","t"," ","a","d","d","r","e","s","s","e","d">>) \/ StartsWith(sl, <<"n","o","t"," ","s","p","e","c","i","f","i","e","d">>)
        /\ sl \notin EXACT_NOT_PRESENT

\* pos of a review item: the scanned position of its topic, 999999 when there
\* is none or when lease_says tells that the clause is absent
LeasePosition(item, actions, positions) ==
    IF IsExactlyAbsent(item.lease_says) THEN NO_POSITION
    ELSE IF IsVaguelyAbsent(item.lease_says) /\ DictGet(actions, item.section, "none") = "none"
    THEN NO_POSITION
    ELSE IF item.section \in DOMAIN positions THEN positions[item.section]
    ELSE NO_POSITION

\* sec_sort with no fallback to the position
OrderKeyLabelOnly(sec_ref, pos) == SectionSortKey(sec_ref)

\* sec_sort of a label and a position, in ten-thousandths: the section key,
\* or pos / 10000.0 when the label gives none and a position exists
OrderKey(sec_ref, pos) ==
    IF SectionSortKey(sec_ref) >= ABSENT_KEY /\ pos < NO_POSITION
    THEN pos
    ELSE SectionSortKey(sec_ref)

\* A lease_sort_key q * 10000 + r with 0 <= r < 10000 is kept as <<q, r>>,
\* q whole units of the order key and r ten-thousandths: 999999 * 10000 is
\* beyond the integers of the model checker.  SortKeyOf(q, n) is
\* q * 10000 + n.
SortKeyOf(q, n) == <<q + n \div KEY_SCALE, n % KEY_SCALE>>

\* a < b on sort keys
KeyLess(a, b) == a[1] < b[1] \/ (a[1] = b[1] /\ a[2] < b[2])

\* the fields the enrichment loop of _run_analysis adds to item number index
EnrichItem(item, index, actions, positions) ==
    [section         |-> item.section,
     lease_says      |-> item.lease_says,
     action_taken    |-> DictGet(actions, item.section, "none"),
     lease_position  |-> LeasePosition(item, actions, positions),
     lease_section   |-> item.lease_section,
     checklist_index |-> index,
     lease_sort_key  |-> SortKeyOf(0, OrderKey(item.lease_section,
                                               LeasePosition(item, actions, positions))
                                      + index)]

\* lease_sort_key as results() computes it again for item number index of a
\* stored job (every item of a job stored by _run_analysis has lease_position)
DiskSortKey(r, index) ==
    IF IsExactlyAbsent(r.lease_says) THEN SortKeyOf(NO_POSITION, index)
    ELSE IF IsVaguelyAbsent(r.lease_says) /\ r.action_taken = "none"
    THEN SortKeyOf(NO_POSITION, index)
    ELSE SortKeyOf(0, OrderKey(r.lease_section, r.lease_position) + index)

DiskItem(r, index) ==
    IF IsExactlyAbsent(r.lease_says) \/ (IsVaguelyAbsent(r.lease_says) /\ r.action_taken = "none")
    THEN [r EXCEPT !.lease_position = NO_POSITION, !.lease_sort_key = DiskSortKey(r, index)]
    ELSE [r EXCEPT !.lease_sort_key = DiskSortKey(r, index)]

\* the section labels of the calls: a head, a numeral, in or out of
\* surrounding whitespace, and the labels that carry no numeral
LabelHeads ==
    {<<>>, <<"A","r","t","i","c","l","e"," ">>, <<"S","e","c","t","i","o","n"," ">>, <<"E","x","h","i","b","i","t"," ">>, <<"E","x","h","i","b","i","t"," ","A"," ","S","e","c","t","i","o","n"," ">>,
     <<"e","x","h","i","b","i","t"," ","B",","," ","s","e","c","t","i","o","n"," ">>}
LabelNumerals ==
    {<<"3",".","1">>, <<"1","4",".","3">>, <<"4">>, <<"I","V">>, <<"X","X">>, <<"X","X","I">>, <<"C">>,
     <<"9","9","9">>, <<"1","0">>, <<"1","1">>, <<"0">>}
PlainLabels ==
    {<<>>, <<"n","o","t"," ","f","o","u","n","d">>, <<"n","/","a">>, <<"N","/","A">>, <<"N","o","t"," ","A","d","d","r","e","s","s","e","d">>,
     <<"S","u","m","m","a","r","y"," ","o","f"," ","B","a","s","i","c"," ","T","e","r","m","s">>, <<"P","r","e","a","m","b","l","e">>, <<"L","o","b","b","y">>, <<"E","x","h","i","b","i","t">>,
     <<"E","x","h","i","b","i","t"," ","B">>, <<"E","x","h","i","b","i","t"," "," ","Z">>}
Labels ==
    PlainLabels \cup
    {wrap \o head \o num \o wrap :
        head \in LabelHeads, num \in LabelNumerals, wrap \in {<<>>, <<" ">>}}

SortKeyCalls == [op : {"sort_key"}, lease_section : Labels]

SortKeyInit == Idle /\ call \in SortKeyCalls /\ result = NoResult

\* sec_sort = _section_sort_key(sec_ref)
SortKey ==
    /\ call.op = "sort_key"
    /\ result = NoResult
    /\ result' = <<SectionSortKey(call.lease_section)>>
    /\ UNCHANGED <<engine, web, call>>

SpecSortKey == SortKeyInit /\ [][SortKey]_vars

\* the review items of a job: a topic, what the lease says, a section label
MaxItems == 2
Tax == <<"T","a","x">>
Term == <<"T","e","r","m">>
ItemCatalogue ==
    [section : {Rent, Tax, Term},
     lease_says : {<<"x">>, <<"N","o","t"," ","f","o","u","n","d">>, <<"N","o","t"," ","a","d","d","r","e","s","s","e","d"," ","-"," ","n","o","n","e">>},
     lease_section : {<<>>, <<"3",".","1">>, <<"L","o","b","b","y">>}]

\* the summary of the engine the items are enriched with: Rent annotated at
\* block 5, Tax located at block 4, Term neither.  pos / 10000.0 * 10000 is
\* taken as pos; the floating-point product is pos for these positions (for
\* some others, 6 among them, it is one unit in the last place below).
SummaryActions == << [k |-> Rent, v |-> "comment"] >>
SummaryPositions == (Rent :> 5) @@ (Tax :> 4)

ReviewCalls ==
    [op : {"review"},
     review : UNION {[1..n -> ItemCatalogue] : n \in 0..MaxItems},
     section_actions : {SummaryActions},
     section_positions : {SummaryPositions}]

ReviewInit == Idle /\ call \in ReviewCalls /\ result = NoResult

\* the enrichment loop of _run_analysis over result["review"]
Enrich ==
    /\ call.op = "review"
    /\ result = NoResult
    /\ result' = << [n \in 1..Len(call.review) |->
                        EnrichItem(call.review[n], n - 1,
                                   call.section_actions, call.section_positions)] >>
    /\ UNCHANGED <<engine, web, call>>

\* results() of a finished job: the sort keys are computed again
ViewResults ==
    /\ call.op = "review"
    /\ result # NoResult
    /\ result' = << [n \in 1..Len(result[1]) |-> DiskItem(result[1][n], n - 1)] >>
    /\ UNCHANGED <<engine, web, call>>

SpecReview == ReviewInit /\ [][Enrich \/ ViewResults]_vars

(* ------------------------------------------------------------------ *)
(* Calls of _apply_to_para                                            *)
(* ------------------------------------------------------------------ *)

\* the blocks handed to _apply_to_para: plain paragraphs, paragraphs whose
\* words are separated by runs of whitespace, an empty paragraph, and a
\* paragraph that an earlier request has rewritten
LocateParas ==
    { PlainPara(<<"a","b","a">>),
      PlainPara(<<"a"," "," ","b">>),
      PlainPara(<<" ","a","\t","b"," ","a","\n","b">>),
      PlainPara(<<>>),
      Rewritten(<<"a","b","a">>, <<"b">>, <<"c">>, 1) }

\* the find texts, trimmed and not empty as apply_redlines passes them
LocateFinds ==
    { <<"a">>, <<"b">>, <<"a"," ","b">>, <<"a"," "," ","b">>, <<"a","a">>,
      <<"b"," ","a">>, <<"c">> }

\* the counter is above every ID that the block holds
LocateCalls ==
    {c \in [op : {"apply_to_para"},
            para : LocateParas,
            find_text : LocateFinds,
            replace_text : {<<"c">>, <<"a"," ","b">>},
            change_id : {1, 3}] :
        \A n \in 1..Len(c.para) : c.para[n].id < c.change_id}

LocateInit == Idle /\ call \in LocateCalls /\ result = NoResult

\* change_id, ok = _apply_to_para(para, find, replace, change_id)
Locate ==
    /\ call.op = "apply_to_para"
    /\ result = NoResult
    /\ result' = <<ApplyToPara(call.para, call.find_text, call.replace_text, call.change_id)>>
    /\ UNCHANGED <<engine, web, call>>

SpecLocate == LocateInit /\ [][Locate]_vars

(* ------------------------------------------------------------------ *)
(* Two invocations running concurrently                               *)
(* ------------------------------------------------------------------ *)

\* apply_redlines keeps its document, counters and maps in locals and the
\* module holds no mutable global (AUTHOR and DATE are set once at import);
\* the analysis threads started by analyze run it on their own temporary
\* files.  The variables of the engine are the locals of the invocation that
\* is running; call holds the locals of the other one, which waits to be
\* scheduled.

\* the locals of the running invocation
Snapshot ==
    [redlines          |-> redlines,
     issues            |-> issues,
     additional_issues |-> additional_issues,
     input_paras       |-> input_paras,
     input_cells       |-> input_cells,
     paras             |-> paras,
     cells             |-> cells,
     change_id         |-> change_id,
     applied           |-> applied,
     comments          |-> comments,
     section_actions   |-> section_actions,
     find_to_section   |-> find_to_section,
     section_positions |-> section_positions,
     saved             |-> saved,
     pc                |-> pc,
     idx               |-> idx,
     written           |-> written,
     annotated         |-> annotated,
     prescan           |-> prescan,
     rescan            |-> rescan]

\* the locals of an invocation of apply_redlines when it starts
Start(job) ==
    [redlines          |-> job.redlines,
     issues            |-> job.issues,
     additional_issues |-> job.additional_issues,
     input_paras       |-> job.input_paras,
     input_cells       |-> job.input_cells,
     paras             |-> job.input_paras,
     cells             |-> job.input_cells,
     change_id         |-> 1,
     applied           |-> 0,
     comments          |-> 0,
     section_actions   |-> <<>>,
     find_to_section   |-> <<>>,
     section_positions |-> NoPositions,
     saved             |-> <<>>,
     pc                |-> "prescan",
     idx               |-> 1,
     written           |-> <<>>,
     annotated         |-> <<>>,
     prescan           |-> NoPositions,
     rescan            |-> NoPositions]

\* the running invocation has the locals s
Begin(s) ==
    /\ redlines = s.redlines
    /\ issues = s.issues
    /\ additional_issues = s.additional_issues
    /\ input_paras = s.input_paras
    /\ input_cells = s.input_cells
    /\ paras = s.paras
    /\ cells = s.cells
    /\ change_id = s.change_id
    /\ applied = s.applied
    /\ comments = s.comments
    /\ section_actions = s.section_actions
    /\ find_to_section = s.find_to_section
    /\ section_positions = s.section_positions
    /\ saved = s.saved
    /\ pc = s.pc
    /\ idx = s.idx
    /\ written = s.written
    /\ annotated = s.annotated
    /\ prescan = s.prescan
    /\ rescan = s.rescan

\* the invocation goes on with a change counter that both invocations share
ResumeSharedCounter(s) ==
    /\ redlines' = s.redlines
    /\ issues' = s.issues
    /\ additional_issues' = s.additional_issues
    /\ input_paras' = s.input_paras
    /\ input_cells' = s.input_cells
    /\ paras' = s.paras
    /\ cells' = s.cells
    /\ change_id' = change_id
    /\ applied' = s.applied
    /\ comments' = s.comments
    /\ section_actions' = s.section_actions
    /\ find_to_section' = s.find_to_section
    /\ section_positions' = s.section_positions
    /\ saved' = s.saved
    /\ pc' = s.pc
    /\ idx' = s.idx
    /\ written' = s.written
    /\ annotated' = s.annotated
    /\ prescan' = s.prescan
    /\ rescan' = s.rescan

\* the invocation with the locals s goes on
Resume(s) ==
    /\ redlines' = s.redlines
    /\ issues' = s.issues
    /\ additional_issues' = s.additional_issues
    /\ input_paras' = s.input_paras
    /\ input_cells' = s.input_cells
    /\ paras' = s.paras
    /\ cells' = s.cells
    /\ change_id' = s.change_id
    /\ applied' = s.applied
    /\ comments' = s.comments
    /\ section_actions' = s.section_actions
    /\ find_to_section' = s.find_to_section
    /\ section_positions' = s.section_positions
    /\ saved' = s.saved
    /\ pc' = s.pc
    /\ idx' = s.idx
    /\ written' = s.written
    /\ annotated' = s.annotated
    /\ prescan' = s.prescan
    /\ rescan' = s.rescan

\* the files and arguments of the invocations that run concurrently
JobCatalogue ==
    << [input_paras |-> <<PlainPara(<<"a","b","a">>)>>, input_cells |-> <<>>,
        redlines |-> <<RedlineCatalogue[2]>>, issues |-> <<IssueCatalogue[1]>>,
        additional_issues |-> <<>>],
       [input_paras |-> <<PlainPara(ShortPara)>>, input_cells |-> <<PlainPara(CellText)>>,
        redlines |-> <<RedlineCatalogue[5]>>, issues |-> <<IssueCatalogue[2]>>,
        additional_issues |-> <<AdditionalItem>>],
       [input_paras |-> <<PlainPara(<<"a","b","a">>), PlainPara(<<"a","b","a">>)>>,
        input_cells |-> <<>>,
        redlines |-> <<RedlineCatalogue[1], RedlineCatalogue[3]>>, issues |-> <<>>,
        additional_issues |-> <<>>] >>

\* no second invocation was started
Alone == [pc |-> "none"]

\* an invocation runs alone (b = 0) or next to a second one
ConcurrentInit ==
    \E a \in 1..Len(JobCatalogue), b \in 0..Len(JobCatalogue) :
        /\ Begin(Start(JobCatalogue[a]))
        /\ call = [op |-> "concurrent", running |-> 1,
                   jobs |-> IF b = 0 THEN <<a>> ELSE <<a, b>>,
                   other |-> IF b = 0 THEN Alone ELSE Start(JobCatalogue[b])]
        /\ result = NoResult
        /\ NoJobs

\* the scheduler takes the running thread off and puts the other one on
Switch ==
    /\ call.op = "concurrent"
    /\ Len(call.jobs) = 2
    /\ Resume(call.other)
    /\ call' = [call EXCEPT !.running = 3 - @, !.other = Snapshot]
    /\ UNCHANGED <<result, web>>

SpecConcurrent == ConcurrentInit /\ [][Next \/ Switch]_vars

(* ------------------------------------------------------------------ *)
(* Invocations with requests that Step 1 passes over                  *)
(* ------------------------------------------------------------------ *)

\* requests with an empty find text, with a find text that equals the
\* replacement once both are trimmed, and with a blank replacement, around
\* one that applies
SkipCatalogue ==
    << [section |-> Rent, find |-> <<>>,            replace |-> <<"c">>, reason |-> <<"w">>],
       [section |-> Rent, find |-> <<"a">>,         replace |-> <<"c">>, reason |-> <<>>],
       [section |-> Rent, find |-> <<" ","a"," ">>, replace |-> <<"a">>, reason |-> <<>>],
       [section |-> Rent, find |-> <<"a">>,         replace |-> <<" ">>, reason |-> <<"w">>] >>

SkipJobs ==
    [redlines : SubLists(SkipCatalogue, MaxRedlines),
     issues : {<<>>, <<IssueCatalogue[1]>>},
     additional_issues : {<<>>},
     input_paras : {<<>>, <<PlainPara(<<"a","b","a">>)>>},
     input_cells : {<<>>, <<PlainPara(CellText)>>}]

SkipInit ==
    /\ \E job \in SkipJobs : Begin(Start(job))
    /\ call = NoCall
    /\ result = NoResult
    /\ NoJobs

SpecSkip == SkipInit /\ [][Next]_vars

(* ------------------------------------------------------------------ *)
(* Invocations whose requests and review items repeat a topic         *)
(* ------------------------------------------------------------------ *)

\* the lists of at most max elements of S, in any order and with repetition
Lists(S, max) == UNION {[1..k -> S] : k \in 0..max}

\* review items of the topic Rent: one that asks for an annotation, one that
\* passed, one of low priority
TopicIssues ==
    { IssueCatalogue[1],
      [section |-> Rent, priority |-> "Medium", status |-> "pass", issue |-> <<"y">>,
       vip_standard |-> <<>>, lease_says |-> <<>>],
      IssueCatalogue[3] }

TopicJobs ==
    [redlines : Lists({RedlineCatalogue[1], RedlineCatalogue[3], RedlineCatalogue[5]},
                      MaxRedlines),
     issues : Lists(TopicIssues, MaxIssues),
     additional_issues : {<<>>},
     input_paras : {<<>>, <<PlainPara(<<"a","b","a">>)>>},
     input_cells : {<<>>}]

TopicInit ==
    /\ \E job \in TopicJobs : Begin(Start(job))
    /\ call = NoCall
    /\ result = NoResult
    /\ NoJobs

SpecTopic == TopicInit /\ [][Next]_vars

(* ------------------------------------------------------------------ *)
(* Calls of _insert_comment_annotation without an explicit target     *)
(* ------------------------------------------------------------------ *)

\* the blocks of the documents: blocks that name a topic, at and beyond the
\* two length limits, a block that holds the words of a topic in another
\* order, a block of whitespace
AnchorTexts ==
    { PadTo(<<"r","e","n","t">>, HEADING_LEN),
      PadTo(<<"r","e","n","t">>, HEADING_LEN + 1),
      ShortPara,
      PadTo(<<"r","e","n","t">>, SHORT_LEN + 1),
      PadTo(<<"R","e","n","t"," ","t","e","r","m">>, SHORT_LEN),
      <<"T","e","r","m"," ","r","e","n","t">>,
      PadTo(<<"t","a","x">>, HEADING_LEN),
      <<" "," ">> }

AnchorCalls ==
    [op : {"insert_comment_annotation"},
     paras : Lists({PlainPara(t) : t \in AnchorTexts}, MaxParas),
     section_name : Range(NameCatalogue),
     issue_text : {<<"x">>},
     vip_standard : {<<>>}]

AnchorInit == Idle /\ call \in AnchorCalls /\ result = NoResult

\* para_idx = _insert_comment_annotation(doc, section, issue_text, vip_std)
Anchor ==
    /\ call.op = "insert_comment_annotation"
    /\ result = NoResult
    /\ result' = <<InsertCommentAnnotation(call.paras, call.section_name, call.issue_text,
                                           call.vip_standard, NoTarget)>>
    /\ UNCHANGED <<engine, web, call>>

SpecAnchor == AnchorInit /\ [][Anchor]_vars

(* ------------------------------------------------------------------ *)
(* Review jobs (src/app.py)                                           *)
(* ------------------------------------------------------------------ *)

\* the jobs that analyze creates
MaxJobs == 2

\* Python's None in a job's entry
Null == "None"

\* the entry that analyze stores (original_filename is left out)
NewJob ==
    [status |-> "processing", progress |-> "Extracting lease text", result |-> Null,
     error |-> Null, redlined_path |-> Null]

\* the places of _run_analysis where the next statement is
\* _update_job(job_id, progress=...), with the text and the place after it
ProgressText ==
    [start    |-> "Extracting lease text",
     loi      |-> "Extracting LOI text",
     send     |-> "Sending to Claude AI for analysis",
     applying |-> "Analysis complete. Applying redlines and comment annotations"]

AfterProgress ==
    [start |-> "extract", loi |-> "send", send |-> "analyze_lease", applying |-> "apply_redlines"]

\* the places where the next statement is a call that returns or raises,
\* with the places after its return
AfterCall ==
    [extract        |-> {"loi", "send"},
     analyze_lease  |-> {"applying"},
     apply_redlines |-> {"done"}]

\* _update_job: "with JOBS_LOCK: if job_id in JOBS: JOBS[job_id].update(kwargs)"
UpdateJob(jobs, job_id, progress) ==
    IF job_id \in DOMAIN jobs
    THEN [jobs EXCEPT ![job_id].progress = progress]
    ELSE jobs

\* analyze: the entry is stored under JOBS_LOCK and the thread is started
Analyze(job_id) ==
    /\ job_id = Len(JOBS) + 1
    /\ job_id <= MaxJobs
    /\ JOBS' = Append(JOBS, NewJob)
    /\ thread' = Append(thread, "start")
    /\ response' = [route |-> "analyze", body |-> "loading"]
    /\ UNCHANGED <<engine, call, result>>

\* _run_analysis: a progress update
Progress(job_id) ==
    /\ job_id \in DOMAIN thread
    /\ thread[job_id] \in DOMAIN ProgressText
    /\ JOBS' = UpdateJob(JOBS, job_id, ProgressText[thread[job_id]])
    /\ thread' = [thread EXCEPT ![job_id] = AfterProgress[thread[job_id]]]
    /\ UNCHANGED <<engine, call, result, response>>

\* _run_analysis: _extract_lease_text (with or without a letter of intent
\* to read next), analyze_lease, or apply_redlines with the enrichment loop
\* returns, or raises into the except clause
Call(job_id) ==
    /\ job_id \in DOMAIN thread
    /\ thread[job_id] \in DOMAIN AfterCall
    /\ \E next \in AfterCall[thread[job_id]] \cup {"except"} :
           thread' = [thread EXCEPT ![job_id] = next]
    /\ UNCHANGED <<engine, call, result, JOBS, response>>

\* _run_analysis: the update to "done" under JOBS_LOCK
Done(job_id) ==
    /\ job_id \in DOMAIN thread
    /\ thread[job_id] = "done"
    /\ JOBS' = [JOBS EXCEPT ![job_id] =
                   [@ EXCEPT !.status = "done", !.progress = "Done", !.result = "result",
                             !.redlined_path = "tmp_out"]]
    /\ thread' = [thread EXCEPT ![job_id] = "persist"]
    /\ UNCHANGED <<engine, call, result, response>>

\* mutant: a failure of the copy leaves _persist_job as an exception
PersistJobRaising(job_id) ==
    /\ job_id \in DOMAIN thread
    /\ thread[job_id] = "persist"
    /\ \/ /\ JOBS' = [JOBS EXCEPT ![job_id].redlined_path = "redlined.docx"]
          /\ thread' = [thread EXCEPT ![job_id] = "finally"]
       \/ /\ JOBS' = JOBS
          /\ thread' = [thread EXCEPT ![job_id] = "except"]
    /\ UNCHANGED <<engine, call, result, response>>

\* _run_analysis: the snapshot and _persist_job; the copy into the job
\* directory succeeds and the entry points to it, or something fails and
\* "except Exception: pass" leaves the entry as it is
PersistJob(job_id) ==
    /\ job_id \in DOMAIN thread
    /\ thread[job_id] = "persist"
    /\ \/ JOBS' = [JOBS EXCEPT ![job_id].redlined_path = "redlined.docx"]
       \/ JOBS' = JOBS
    /\ thread' = [thread EXCEPT ![job_id] = "finally"]
    /\ UNCHANGED <<engine, call, result, response>>

\* _run_analysis: the except clause
Failed(job_id) ==
    /\ job_id \in DOMAIN thread
    /\ thread[job_id] = "except"
    /\ JOBS' = [JOBS EXCEPT ![job_id] = [@ EXCEPT !.status = "error", !.error = "str(e)"]]
    /\ thread' = [thread EXCEPT ![job_id] = "finally"]
    /\ UNCHANGED <<engine, call, result, response>>

\* _run_analysis: the finally clause; the thread ends
Finally(job_id) ==
    /\ job_id \in DOMAIN thread
    /\ thread[job_id] = "finally"
    /\ thread' = [thread EXCEPT ![job_id] = "ended"]
    /\ UNCHANGED <<engine, call, result, JOBS, response>>

\* a step of the analysis thread of the job
RunAnalysis(job_id) ==
    \/ Progress(job_id)
    \/ Call(job_id)
    \/ Done(job_id)
    \/ PersistJob(job_id)
    \/ Failed(job_id)
    \/ Finally(job_id)

\* "job = JOBS.get(job_id)", then _load_job_from_disk, which finds no job
\* that was not persisted: "if not job"
NoJob(job_id) == job_id \notin DOMAIN JOBS

\* GET /api/status/<job_id>
ApiStatus(job_id) ==
    /\ response' =
           IF NoJob(job_id)
           THEN [route |-> "status", body |-> "not_found"]
           ELSE [route |-> "status", body |-> JOBS[job_id].status]
    /\ UNCHANGED <<engine, call, result, JOBS, thread>>

\* GET /results/<job_id>
Results(job_id) ==
    /\ response' =
           IF NoJob(job_id)
           THEN [route |-> "results", body |-> "Job not found"]
           ELSE IF JOBS[job_id].status = "error"
           THEN [route |-> "results", body |-> "Analysis failed"]
           ELSE IF JOBS[job_id].status # "done"
           THEN [route |-> "results", body |-> "Results not ready yet"]
           ELSE [route |-> "results", body |-> JOBS[job_id].result]
    /\ UNCHANGED <<engine, call, result, JOBS, thread>>

\* GET /download/<job_id>
Download(job_id) ==
    /\ response' =
           IF NoJob(job_id) \/ JOBS[job_id].redlined_path = Null
           THEN [route |-> "download", body |-> "not available"]
           ELSE [route |-> "download", body |-> JOBS[job_id].redlined_path]
    /\ UNCHANGED <<engine, call, result, JOBS, thread>>

JobsInit == Idle /\ call = NoCall /\ result = NoResult

JobsNext ==
    \E job_id \in 1..MaxJobs :
        \/ Analyze(job_id)
        \/ RunAnalysis(job_id)
        \/ ApiStatus(job_id)
        \/ Results(job_id)
        \/ Download(job_id)

SpecJobs == JobsInit /\ [][JobsNext]_vars

\* a started thread is scheduled as long as it has a statement to run: its
\* calls return or raise, and JOBS_LOCK is only held for single statements
SpecJobsFair == SpecJobs /\ \A job_id \in 1..MaxJobs : WF_vars(RunAnalysis(job_id))

(* ------------------------------------------------------------------ *)
(* Properties                                                         *)
(* ------------------------------------------------------------------ *)

\* s.count(sub): the occurrences of sub in s, left to right, not overlapping
RECURSIVE CountOcc(_, _)
CountOcc(sub, s) ==
    IF ~Contains(sub, s) THEN 0
    ELSE 1 + CountOcc(sub, Drop(s, Index(sub, s) + Len(sub)))

RECURSIVE Sum(_)
Sum(ns) == IF ns = <<>> THEN 0 ELSE Head(ns) + Sum(Tail(ns))

\* the occurrences of find in the run text of the blocks bs
Occurrences(find, bs) == Sum([n \in 1..Len(bs) |-> CountOcc(find, RunText(bs[n]))])

\* the tracked deletions of exactly the text find in the blocks bs
Deletions(find, bs) ==
    Sum([n \in 1..Len(bs) |->
            Cardinality({m \in 1..Len(bs[n]) : bs[n][m].kind = "del" /\ bs[n][m].text = find})])

InputBlocks == input_paras \o input_cells
SavedBlocks == saved.paras \o saved.cells
Blocks == paras \o cells

Returned == pc = "done"

\* the request is not passed over by Step 1
Processed(r) == ~Skipped(Strip(r.find), Strip(r.replace))

\* C1: for an applied redline request whose find text occurs N >= 1 times in
\* the document, all N occurrences are inside tracked deletions at return and
\* none remains in unmarked text.  Stated for an invocation with that one
\* request and no review item, where every block of the saved file stems
\* from the input.
C1_AllOccurrencesMarked ==
    (Returned /\ Len(redlines) = 1 /\ issues = <<>> /\ additional_issues = <<>>
        /\ Processed(redlines[1]) /\ applied >= 1)
    => LET find == Strip(redlines[1].find) IN
       /\ Deletions(find, SavedBlocks) = Occurrences(find, InputBlocks)
       /\ Occurrences(find, SavedBlocks) = 0

\* C2: a request whose find text occurs in the document and whose replace
\* text is empty is applied: the phrase is a tracked deletion paired with an
\* empty insertion, applied is 1 and no annotation is counted.
C2_PureDeletionApplied ==
    (Returned /\ Len(redlines) = 1 /\ issues = <<>>
        /\ Strip(redlines[1].replace) = <<>>
        /\ Occurrences(Strip(redlines[1].find), InputBlocks) = 1)
    => /\ applied = 1
       /\ comments = 0
       /\ Deletions(Strip(redlines[1].find), SavedBlocks) = 1

\* the Text Locator finds find in the block: exactly, or after both texts
\* have their whitespace collapsed
Locatable(find, para) ==
    \/ Contains(find, RunText(para))
    \/ Contains(Normalize(find), Normalize(RunText(para)))

LocatedIn(find, bs) == \E n \in 1..Len(bs) : Locatable(find, bs[n])

HasAnnotation(sec) == \E n \in 1..Len(annotated) : annotated[n].section = sec

\* C3 as claimed: every request whose find text occurs in no block of the
\* document gets no deletion/insertion, and at return its topic has an
\* annotation and the action "comment", whatever else is in the invocation.
C3_AbsentFindAlwaysComment ==
    Returned =>
        \A n \in 1..Len(redlines) :
            (Processed(redlines[n]) /\ ~LocatedIn(Strip(redlines[n].find), InputBlocks))
            => /\ HasAnnotation(redlines[n].section)
               /\ DictGet(section_actions, redlines[n].section, "none") = "comment"

\* the step of Step 1 that handles a processed request located in no block
C3_Step ==
    (pc = "apply" /\ Processed(redlines[idx]) /\ ~LocatedIn(Strip(redlines[idx].find), Blocks))
    => LET sec == redlines[idx].section IN
       /\ applied' = applied /\ change_id' = change_id /\ written' = written
       /\ cells' = cells
       /\ IF DictHas(section_actions, sec)
          THEN /\ paras' = paras
               /\ section_actions' = section_actions
               /\ comments' = comments
               /\ annotated' = annotated
          ELSE /\ Len(paras') = Len(paras) + 1
               /\ \E k \in 1..Len(paras') :
                     /\ paras = SubSeq(paras', 1, k - 1) \o SubSeq(paras', k + 1, Len(paras'))
                     /\ Contains(MARKER \o Upper(sec), RunText(paras'[k]))
               /\ DictGet(section_actions', sec, "none") = "comment"
               /\ comments' = comments + 1
               /\ Len(annotated') = Len(annotated) + 1
               /\ annotated'[Len(annotated')].section = sec

\* an action "comment" or "both" stays one of the two
C3_Kept ==
    \A n \in 1..Len(section_actions) :
        section_actions[n].v \in {"comment", "both"}
        => DictGet(section_actions', section_actions[n].k, "none") \in {"comment", "both"}

\* C3 (amended): a processed request (find and replace non-empty and
\* different) whose find text is located in no block when it is processed
\* creates no deletion/insertion; if its topic has no action yet, exactly one
\* annotation is inserted for the topic, comments rises by 1 and the action
\* becomes "comment", and stays "comment" or "both" until return; if the
\* topic already has an action, nothing is inserted and the action is kept.
C3_FallbackAnnotation == [][C3_Step /\ C3_Kept]_vars

\* a fallback annotation was inserted for a request that matched nothing
C3_Witness ==
    /\ pc = "apply" /\ idx = 2 /\ applied = 0 /\ comments = 1
    /\ Len(annotated) = 1
    /\ DictGet(section_actions, redlines[1].section, "none") = "comment"

\* the deletion/insertion pairs (find, replace) with change IDs n, n+1 in bs
Pairs(find, replace, bs) ==
    {<<n, m>> \in (1..Len(bs)) \X (1..4) :
        /\ m + 1 <= Len(bs[n])
        /\ bs[n][m].kind = "del" /\ bs[n][m].text = find
        /\ bs[n][m + 1].kind = "ins" /\ bs[n][m + 1].text = replace
        /\ bs[n][m + 1].id = bs[n][m].id + 1}

\* the text a reader sees with the changes accepted: runs and insertions
ReadText(para) ==
    Join([n \in 1..Len(para) |-> IF para[n].kind \in {"r", "ins"} THEN para[n].text ELSE <<>>])

\* text with its first occurrence of find replaced
Edited(text, find, replace) ==
    IF ~Contains(find, text) THEN text
    ELSE Take(text, Index(find, text)) \o replace \o Drop(text, Index(find, text) + Len(find))

\* no character of the find text of request n is in the find text of another
\* request of the invocation
FindApart(n) ==
    \A m \in 1..Len(redlines) :
        m # n => Range(Strip(redlines[m].find)) \cap Range(Strip(redlines[n].find)) = {}

\* C4: for every request whose find text occurs verbatim exactly once in the
\* document, the saved document holds exactly one deletion/insertion pair
\* for it, with change IDs n and n+1, also when several requests are applied
\* in the invocation (here: requests whose find texts share no character);
\* with one request, the text read from every block is the original with
\* that occurrence replaced.
C4_ExactlyOnePair ==
    Returned =>
        \A n \in 1..Len(redlines) :
            LET find == Strip(redlines[n].find)
                replace == Strip(redlines[n].replace)
            IN  (Processed(redlines[n]) /\ FindApart(n)
                    /\ Occurrences(find, InputBlocks) = 1)
                => /\ Cardinality(Pairs(find, replace, SavedBlocks)) = 1
                   /\ (Len(redlines) = 1 /\ issues = <<>>)
                      => \A k \in 1..Len(InputBlocks) :
                            ReadText(IF k <= Len(input_paras) THEN saved.paras[k]
                                     ELSE saved.cells[k - Len(input_paras)])
                            = Edited(RunText(InputBlocks[k]), find, replace)

\* the change records (deletions and insertions) in the blocks bs
Records(bs) == {bs[n][m] : <<n, m>> \in {x \in (1..Len(bs)) \X (1..4) :
                                  x[2] <= Len(bs[x[1]]) /\ bs[x[1]][x[2]].kind # "r"}}

\* C5: a deletion/insertion pair written into a block is still present and
\* unchanged after every later step of the invocation: no later request
\* removes, rewrites or re-matches an earlier change record.
C5_RecordsImmutable == [][Records(Blocks) \subseteq Records(Blocks')]_vars

\* the change IDs carried by the records of the blocks bs, with repetition
IdList(bs) == Join([n \in 1..Len(bs) |->
                      Join([m \in 1..Len(bs[n]) |->
                              IF bs[n][m].kind # "r" THEN <<bs[n][m].id>> ELSE <<>>])])

\* the counter is 1 + 2*applied; the IDs written are 1, 2, ... in order, so
\* pairwise distinct; every record of the document carries one of them, no
\* two the same, a deletion n being followed by its insertion n+1
C6_Inv ==
    LET ids == IdList(Blocks) IN
    /\ change_id = 1 + 2 * applied
    /\ written = [k \in 1..(2 * applied) |-> k]
    /\ \A k \in 1..Len(ids) : ids[k] \in 1..(change_id - 1)
    /\ \A k, l \in 1..Len(ids) : k # l => ids[k] # ids[l]
    /\ \A n \in 1..Len(Blocks) : \A m \in 1..Len(Blocks[n]) :
           Blocks[n][m].kind = "del"
           => /\ m + 1 <= Len(Blocks[n])
              /\ Blocks[n][m + 1].kind = "ins"
              /\ Blocks[n][m + 1].id = Blocks[n][m].id + 1

\* the blocks where the Text Locator finds the find text of a processed request
Located(find, bs) == {n \in 1..Len(bs) : Locatable(find, bs[n])}

\* a step never lowers the counter; the step of a processed request advances
\* it by 2 for every block where the locator succeeds, each such block taking
\* the next two IDs in block order, and by nothing for the other blocks; no
\* other step moves it
C6_Step ==
    IF pc = "apply" /\ Processed(redlines[idx])
    THEN LET find == Strip(redlines[idx].find)
             hit  == Located(find, Blocks)
         IN  /\ change_id' = change_id + 2 * Cardinality(hit)
             /\ \A n \in hit :
                    \E m \in 1..Len(Blocks'[n]) :
                        /\ Blocks'[n][m].kind = "del"
                        /\ Blocks'[n][m].id = change_id + 2 * Cardinality({k \in hit : k < n})
             /\ \A n \in (1..Len(Blocks)) \ hit :
                    Cardinality(hit) > 0 => Blocks'[n] = Blocks[n]
    ELSE change_id' = change_id

\* C6: within one invocation the change-ID counter starts at 1 and never
\* resets or decreases; every rewritten block takes ID n for its deletion
\* and n+1 for its insertion and advances the counter by exactly 2, so the
\* counter is always 1 + 2*applied and all IDs written are pairwise
\* distinct; a block where the locator fails leaves the counter unchanged.
C6_ChangeIds == [](C6_Inv) /\ [][C6_Step]_vars

\* two blocks were rewritten and a block where the locator failed was passed
C6_Witness ==
    /\ applied >= 2
    /\ \E n \in 1..Len(Blocks) : \A m \in 1..Len(Blocks[n]) : Blocks[n][m].kind = "r"
    /\ Len(IdList(Blocks)) >= 4

\* C7: once section_positions holds a position for a topic, no later step of
\* the invocation replaces it with a larger one (or drops it).
C7_PositionsNeverRaised ==
    [][\A sec \in DOMAIN section_positions :
          /\ sec \in DOMAIN section_positions'
          /\ section_positions'[sec] <= section_positions[sec]]_vars

\* the topics of the invocation
Topics == AllSectionNames(redlines, issues)

\* the returned entry of sec is the lower of its entries in a and b, and
\* there is none when neither has one
IsMinOf(sec, a, b, returned) ==
    LET low == Min(PosGet(a, sec, BOTTOM), PosGet(b, sec, BOTTOM)) IN
    IF low = BOTTOM THEN sec \notin DOMAIN returned
    ELSE sec \in DOMAIN returned /\ returned[sec] = low

\* C8 as claimed: for every topic the returned position is the minimum of
\* the position found by the pre-scan of the original document and the
\* position found by the re-scan of the saved document; a topic positioned
\* by neither scan has no entry.
C8_MinOfPreScanAndReScan ==
    Returned => \A sec \in Topics : IsMinOf(sec, prescan, rescan, section_positions)

\* C8 (amended): for every topic the returned position is the minimum of the
\* position accumulated in section_positions before the re-scan (by the
\* pre-scan, the keyword fallback, the redline application and the
\* annotations) and the position found by the re-scan of the saved document;
\* a topic with neither has no entry.
C8_MinOfAccumulatedAndReScan ==
    [][pc = "rescan" =>
          /\ DOMAIN section_positions' \subseteq Topics
          /\ \A sec \in Topics :
                IsMinOf(sec, section_positions, rescan', section_positions')]_vars

\* at return a topic holds a re-scan position below its accumulated one,
\* another topic or the same holds an accumulated position the re-scan lacks
C8_Witness ==
    /\ Returned
    /\ \E sec \in DOMAIN rescan : sec \in DOMAIN prescan /\ rescan[sec] # prescan[sec]
    /\ \E sec \in DOMAIN section_positions : sec \notin DOMAIN rescan

\* the topic has a genuine anchor: a block found by the pre-scan, a block
\* where a redline matched, or a block chosen as annotation anchor
GenuineAnchor(sec) ==
    \/ sec \in DOMAIN prescan
    \/ DictGet(section_actions, sec, "none") \in {"redline", "both"}
    \/ \E n \in 1..Len(annotated) : annotated[n].section = sec /\ annotated[n].idx < BOTTOM

\* an annotation of the topic was appended at the end of the document
BottomAppended(sec) ==
    \E n \in 1..Len(annotated) : annotated[n].section = sec /\ annotated[n].idx = BOTTOM

\* the indexes (0-based) of the annotation blocks of the topic in the saved file
AnnotationBlocks(sec) ==
    {k \in 0..(Len(saved.paras) - 1) :
        StartsWith(IterText(saved.paras[k + 1]), MARKER \o Upper(sec) \o <<":", " ">>)}

\* C9: for any topic with a genuine anchor, the returned position is at most
\* the position an end-of-document append gives: the sentinel BOTTOM, and the
\* index of the appended annotation block of the topic when there is one.
C9_AnchorBeforeAppend ==
    Returned =>
        \A sec \in Topics :
            GenuineAnchor(sec)
            => /\ sec \in DOMAIN section_positions
               /\ section_positions[sec] <= BOTTOM
               /\ BottomAppended(sec)
                  => \A k \in AnnotationBlocks(sec) : section_positions[sec] <= k

\* the non-empty blocks of ps, 0-based
NonEmpty(ps) == {n \in 0..(Len(ps) - 1) : Strip(RunText(ps[n + 1])) # <<>>}

ScoreOf(ps, n, sec) == CommentConfidence(RunText(ps[n + 1]), sec, Keywords(sec))

\* the highest-scoring non-empty blocks of ps whose score reaches the threshold
BestBlocks(ps, sec) ==
    {n \in NonEmpty(ps) :
        /\ ScoreOf(ps, n, sec) >= CONFIDENCE_THRESHOLD
        /\ \A m \in NonEmpty(ps) : ScoreOf(ps, m, sec) <= ScoreOf(ps, n, sec)}

IsAnnotationOf(para, sec) ==
    Len(para) = 1 /\ para[1].kind = "r" /\ StartsWith(para[1].text, MARKER \o Upper(sec) \o <<":", " ">>)

\* the step calls _insert_comment_annotation without a usable explicit target
UntargetedInsert ==
    /\ Len(annotated') = Len(annotated) + 1
    /\ \/ pc = "apply"
       \/ pc = "review" /\ TargetIdx(section_positions, section_actions, issues[idx].section) = NoTarget

\* C10: _insert_comment_annotation called without an explicit target inserts
\* exactly one annotation block: immediately before the highest-scoring
\* non-empty block, returning that block's index, when the best score is at
\* least 0.80; otherwise as the last block, returning the sentinel 999999.
C10_Step ==
    UntargetedInsert
    => LET sec  == annotated'[Len(annotated')].section
           ret  == annotated'[Len(annotated')].idx
           best == BestBlocks(paras, sec)
       IN  /\ Len(paras') = Len(paras) + 1
           /\ IF best # {}
              THEN /\ ret \in best
                   /\ IsAnnotationOf(paras'[ret + 1], sec)
                   /\ paras'[ret + 2] = paras[ret + 1]
                   /\ SubSeq(paras', 1, ret) = SubSeq(paras, 1, ret)
                   /\ SubSeq(paras', ret + 2, Len(paras')) = SubSeq(paras, ret + 1, Len(paras))
              ELSE /\ ret = BOTTOM
                   /\ IsAnnotationOf(paras'[Len(paras')], sec)
                   /\ SubSeq(paras', 1, Len(paras)) = paras

C10_InsertOrAppend == [][C10_Step]_vars

\* one annotation was anchored before a block whose score passes the
\* threshold without reaching the maximum, another was appended
C10_Witness ==
    /\ \E n \in 1..Len(annotated) :
           /\ annotated[n].idx < BOTTOM
           /\ DictGet(section_actions, annotated[n].section, "none") = "comment"
           /\ annotated[n].idx + 2 <= Len(paras)
           /\ IsAnnotationOf(paras[annotated[n].idx + 1], annotated[n].section)
           /\ ScoreOf(paras, annotated[n].idx + 1, annotated[n].section)
                  \in CONFIDENCE_THRESHOLD..(SCORE_MAX - 1)
    /\ \E n \in 1..Len(annotated) : annotated[n].idx = BOTTOM

\* the three contributing conditions of a block for a topic, each as a level:
\* the topic name occurs in the block (0, 1); none, some or all of the
\* keywords occur (0, 1, 2; no level above 0 without keywords); the block is
\* longer than SHORT_LEN, within it, or within HEADING_LEN (0, 1, 2)
NameLevel(text, name) == IF Contains(Lower(name), Lower(Strip(text))) THEN 1 ELSE 0

KeywordLevel(text, keywords) ==
    LET there == {n \in 1..Len(keywords) : Contains(keywords[n], Lower(Strip(text)))} IN
    IF there = {} THEN 0 ELSE IF Cardinality(there) = Len(keywords) THEN 2 ELSE 1

LengthLevel(text) ==
    IF Len(Strip(text)) > SHORT_LEN THEN 0 ELSE IF Len(Strip(text)) > HEADING_LEN THEN 1 ELSE 2

Levels(text, name, keywords) ==
    <<NameLevel(text, name), KeywordLevel(text, keywords), LengthLevel(text)>>

\* block b is block a with one condition raised and the others held fixed
OneRaised(a, b, name, keywords) ==
    LET la == Levels(a, name, keywords)
        lb == Levels(b, name, keywords)
    IN  \E k \in 1..3 : lb[k] > la[k] /\ \A j \in (1..3) \ {k} : lb[j] = la[j]

\* C11: _comment_confidence never falls when one contributing condition is
\* raised alone (the topic name made to appear; no keyword -> some -> all;
\* length > 160 -> <= 160 -> <= 80), the others held fixed, and the score
\* always lies in [0, 1].
C11_Monotone ==
    result # NoResult
    => /\ result[1] \in 0..SCORE_MAX
       /\ \A b \in BlockTexts :
              OneRaised(call.para_text, b, call.section_name, call.keywords)
              => CommentConfidence(b, call.section_name, call.keywords) >= result[1]

\* a block was scored that can be raised in each of the three conditions alone
C11_Witness ==
    /\ result # NoResult
    /\ \A k \in 1..3 :
           \E b \in BlockTexts :
               LET la == Levels(call.para_text, call.section_name, call.keywords)
                   lb == Levels(b, call.section_name, call.keywords)
               IN  lb[k] > la[k] /\ \A j \in (1..3) \ {k} : lb[j] = la[j]

ActionOf(actions, sec) == DictGet(actions, sec, "none")

\* an action is never removed, changes only to "both", and "both" stays
C12_ActionsKept ==
    \A n \in 1..Len(section_actions) :
        LET now  == section_actions[n].v
            next == ActionOf(section_actions', section_actions[n].k)
        IN  next \in {now, "both"}

\* a request of a topic marked "redline" that is located in no block inserts
\* no annotation and leaves the action
C12_FallbackSuppressed ==
    (/\ pc = "apply"
     /\ Processed(redlines[idx])
     /\ ActionOf(section_actions, redlines[idx].section) = "redline"
     /\ ~LocatedIn(Strip(redlines[idx].find), Blocks))
    => /\ paras' = paras
       /\ annotated' = annotated
       /\ comments' = comments
       /\ ActionOf(section_actions', redlines[idx].section) = "redline"

\* the standing-review pass annotates a topic marked "redline" whose item is
\* High or Medium and not pass, and the action becomes "both"
C12_ReviewUpgrades ==
    (/\ pc = "review"
     /\ issues[idx].status # "pass"
     /\ issues[idx].priority \in {"High", "Medium"}
     /\ ActionOf(section_actions, issues[idx].section) = "redline")
    => /\ Len(annotated') = Len(annotated) + 1
       /\ annotated'[Len(annotated')].section = issues[idx].section
       /\ comments' = comments + 1
       /\ ActionOf(section_actions', issues[idx].section) = "both"

\* C12: once a topic is marked "redline", a later request of the topic whose
\* find text is not located inserts no fallback annotation and leaves the
\* action "redline"; a later standing-review annotation of the topic makes
\* it "both"; an action is never removed and "both" never goes back.
C12_RedlinePriority ==
    [][C12_ActionsKept /\ C12_FallbackSuppressed /\ C12_ReviewUpgrades]_vars

\* a topic was redlined, a later request of it matched nothing, and the
\* standing-review pass then made the action "both" with the one annotation
C12_Witness ==
    /\ Returned
    /\ comments = 1
    /\ \E n \in 2..Len(redlines) :
           /\ Processed(redlines[n])
           /\ redlines[n - 1].section = redlines[n].section
           /\ ~LocatedIn(Strip(redlines[n].find), InputBlocks)
           /\ ActionOf(section_actions, redlines[n].section) = "both"
           /\ HasAnnotation(redlines[n].section)

\* the block carries a tracked change of the topic: the deletion and the
\* insertion of one of its requests
CarriesChange(para, sec) ==
    \E n \in 1..Len(redlines) : \E m \in 1..Len(para) :
        /\ redlines[n].section = sec
        /\ Processed(redlines[n])
        /\ m + 1 <= Len(para)
        /\ para[m].kind = "del" /\ para[m].text = Normalize(redlines[n].find)
        /\ para[m + 1].kind = "ins" /\ para[m + 1].text = Strip(redlines[n].replace)

\* C13: when the standing-review pass annotates a topic whose redline
\* already succeeded (explicit target), the annotation block is immediately
\* before the block that carries the topic's tracked change in the saved
\* document, whatever annotations were inserted earlier.  Stated for a
\* document without tables and an invocation with one request, where the
\* change is in a body paragraph and no other request rewrites its block.
C13_AnnotationAboveChange ==
    (Returned /\ input_cells = <<>> /\ Len(redlines) = 1)
    => \A n \in 1..Len(annotated) :
           annotated[n].target # NoTarget
           => \E k \in 1..(Len(saved.paras) - 1) :
                  /\ IsAnnotationOf(saved.paras[k], annotated[n].section)
                  /\ CarriesChange(saved.paras[k + 1], annotated[n].section)

(* ------------------------------------------------------------------ *)
(* Section order key                                                  *)
(* ------------------------------------------------------------------ *)

\* the call of _section_sort_key has returned
KeyReturned == call.op = "sort_key" /\ result # NoResult

ExhibitLabel(letter, digits) ==
    <<"E","x","h","i","b","i","t"," ">> \o <<letter>>
    \o (IF digits = <<>> THEN <<>> ELSE <<" ","S","e","c","t","i","o","n"," ">> \o digits)

\* the runs of digits among the numerals of the calls
DigitRuns == {num \in LabelNumerals : \A n \in 1..Len(num) : num[n] \in DigitSet}

LetterOffset(letter) == (CHOOSE n \in 1..Len(UpperCase) : UpperCase[n] = letter) - 1

\* C15: for a label "Exhibit <letter>" the order key is 800 + 26 x (offset
\* of the letter from 'a'), further increased by an embedded "Section <n>",
\* so that every section of one exhibit sorts before every section of the
\* next exhibit
C15_ExhibitSpacing ==
    KeyReturned =>
        /\ \A letter \in UpperSet :
               call.lease_section = ExhibitLabel(letter, <<>>)
               => result[1] = (EXHIBIT_BASE + 26 * LetterOffset(letter)) * KEY_SCALE
        /\ \A digits \in DigitRuns :
               call.lease_section = ExhibitLabel("A", digits)
               => /\ result[1] >= SectionSortKey(ExhibitLabel("A", <<>>))
                  /\ \A more \in DigitRuns \cup {<<>>} :
                         result[1] < SectionSortKey(ExhibitLabel("B", more))

\* the value of the numerals of the calls that denote a number n >= 1
NumeralValues ==
    << [k |-> <<"I","V">>, v |-> 4], [k |-> <<"X","X">>, v |-> 20], [k |-> <<"X","X","I">>, v |-> 21],
       [k |-> <<"C">>, v |-> 100], [k |-> <<"4">>, v |-> 4], [k |-> <<"1","0">>, v |-> 10],
       [k |-> <<"1","1">>, v |-> 11], [k |-> <<"9","9","9">>, v |-> 999] >>

\* C16: for a label "Article <numeral>", the numeral being any roman numeral
\* or decimal number n >= 1, the order key is the integer value n of the
\* numeral (Article IV -> 4, Article 4 -> 4, Article XXI -> 21)
C16_ArticleValue ==
    KeyReturned =>
        \A n \in 1..Len(NumeralValues) :
            call.lease_section = <<"A","r","t","i","c","l","e"," ">> \o NumeralValues[n].k
            => result[1] = NumeralValues[n].v * KEY_SCALE

(* ------------------------------------------------------------------ *)
(* lease_sort_key of the review items                                 *)
(* ------------------------------------------------------------------ *)

\* the review items carry their sort keys
Enriched == call.op = "review" /\ result # NoResult

\* the order key a sort key was made of, as a sort key:
\* lease_sort_key = sec_sort * 10000 + idx
OrderKeyOf(r) ==
    IF r.lease_sort_key[2] >= r.checklist_index
    THEN <<r.lease_sort_key[1], r.lease_sort_key[2] - r.checklist_index>>
    ELSE <<r.lease_sort_key[1] - 1, r.lease_sort_key[2] + KEY_SCALE - r.checklist_index>>

\* C17: lease_sort_key is a total order on the review items: two different
\* items never get the same key, and the list index only breaks ties: an
\* item whose order key is strictly smaller sorts before an item whose order
\* key is larger, for any list indexes
C17_TotalOrder ==
    Enriched =>
        \A i, j \in 1..Len(result[1]) :
            i # j =>
                /\ result[1][i].lease_sort_key # result[1][j].lease_sort_key
                /\ KeyLess(OrderKeyOf(result[1][i]), OrderKeyOf(result[1][j]))
                   => KeyLess(result[1][i].lease_sort_key, result[1][j].lease_sort_key)

\* the label of item n gives no order key; the scan has a position for its topic
Unparsed(n) == SectionSortKey(call.review[n].lease_section) >= ABSENT_KEY
HasPosition(n) ==
    /\ call.review[n].section \in DOMAIN call.section_positions
    /\ call.section_positions[call.review[n].section] < NO_POSITION

\* lease_says of item n tells that the clause is absent, and the position of
\* its topic is not relied on
ToldAbsent(n) ==
    \/ IsExactlyAbsent(call.review[n].lease_says)
    \/ /\ IsVaguelyAbsent(call.review[n].lease_says)
       /\ DictGet(call.section_actions, call.review[n].section, "none") = "none"

\* item i has the position of its topic as order key and sorts strictly
\* before every item with neither a parseable label nor a position
FallsBack(i) ==
    /\ OrderKeyOf(result[1][i])
       = SortKeyOf(0, call.section_positions[call.review[i].section])
    /\ \A j \in 1..Len(result[1]) :
           (Unparsed(j) /\ ~HasPosition(j))
           => KeyLess(result[1][i].lease_sort_key, result[1][j].lease_sort_key)

\* C18 as stated: when the section label of a review item is absent or
\* unparseable and a scanned position below 999999 exists for its topic, the
\* order key becomes position / 10000 and the sort key is strictly smaller
\* than that of every item with neither a parseable label nor a position
C18_Stated ==
    Enriched =>
        \A i \in 1..Len(result[1]) : (Unparsed(i) /\ HasPosition(i)) => FallsBack(i)

\* C18: the same, for the items whose lease_says does not tell that the
\* clause is absent (an exact absence phrase, or one that starts with "not
\* addressed" / "not specified" on a topic with no action): those keep the
\* order key 999.0 whatever the scan found
C18_PositionFallback ==
    Enriched =>
        \A i \in 1..Len(result[1]) :
            (Unparsed(i) /\ HasPosition(i) /\ ~ToldAbsent(i)) => FallsBack(i)

C18_Witness ==
    /\ Enriched
    /\ \E i, j \in 1..Len(result[1]) :
           /\ i > j
           /\ Unparsed(i) /\ HasPosition(i) /\ ~ToldAbsent(i)
           /\ call.review[i].lease_section # <<>>
           /\ Unparsed(j) /\ ~HasPosition(j)
           /\ KeyLess(result[1][i].lease_sort_key, result[1][j].lease_sort_key)

(* ------------------------------------------------------------------ *)
(* A re-scan that raises                                              *)
(* ------------------------------------------------------------------ *)

\* C19: if the re-scan of the saved document raises, apply_redlines still
\* returns its summary: applied, comments and section_actions are as they
\* were before the re-scan, section_positions holds exactly the positions
\* accumulated before the re-scan (none from a partly completed re-scan), and
\* the output file stays saved
C19_Step ==
    (pc = "rescan" /\ pc' = "failed")
    => /\ applied' = applied
       /\ comments' = comments
       /\ section_actions' = section_actions
       /\ section_positions' = section_positions
       /\ saved' = saved
       /\ saved'.paras = paras /\ saved'.cells = cells

C19_RescanFailure == [][C19_Step]_vars

\* the summary is returned after a re-scan that had found, before it raised,
\* a position the merge would have taken
C19_Witness ==
    /\ pc = "failed"
    /\ \E sec \in DOMAIN rescan :
           rescan[sec] < PosGet(section_positions, sec, BOTTOM)
    /\ comments > 0
    /\ applied > 0

(* ------------------------------------------------------------------ *)
(* Absent find text and a High issue, end to end                      *)
(* ------------------------------------------------------------------ *)

\* the review items of a topic that are High and not pass
HighIssues(sec) ==
    {n \in 1..Len(issues) :
        /\ issues[n].section = sec
        /\ issues[n].priority = "High"
        /\ issues[n].status # "pass"}

\* the invocation has returned; it had one redline request, whose find text
\* is in no block of the document and whose topic has a High issue
AbsentFindHighIssue ==
    /\ Returned
    /\ Len(redlines) = 1
    /\ ~LocatedIn(Strip(redlines[1].find), InputBlocks)
    /\ HighIssues(redlines[1].section) # {}

\* C20: for a topic whose redline find text is absent from the document and
\* which has a High-priority issue that is not pass, the invocation leaves
\* applied unchanged, raises comments by exactly 1 for that topic (one
\* annotation from the fallback and the standing-review pass together), and
\* the marker text of the inserted annotation block contains the topic name
\* (in capitals, as the marker writes it) and the issue text
C20_AbsentFindHighIssue ==
    AbsentFindHighIssue =>
        LET sec == redlines[1].section IN
        /\ applied = 0
        /\ Cardinality({n \in 1..Len(annotated) : annotated[n].section = sec}) = 1
        /\ comments = Len(annotated)
        /\ \A n \in HighIssues(sec) :
               \E k \in 1..Len(saved.paras) :
                   /\ IsAnnotationOf(saved.paras[k], sec)
                   /\ Contains(issues[n].issue, RunText(saved.paras[k]))

(* ------------------------------------------------------------------ *)
(* Recognition of the annotation blocks by the re-scan                *)
(* ------------------------------------------------------------------ *)

\* C21: in the re-scan of the saved document every annotation block inserted
\* during the invocation is recognised by its marker and its embedded topic
\* name is mapped back to the topic it was inserted for, so that the topic
\* gets a re-scan position no greater than the index of the annotation block,
\* for every topic name, names that contain a colon included
C21_MarkerRecognised ==
    Returned =>
        \A n \in 1..Len(annotated) :
            \A k \in AnnotationBlocks(annotated[n].section) :
                /\ annotated[n].section \in DOMAIN rescan
                /\ rescan[annotated[n].section] <= k

(* ------------------------------------------------------------------ *)
(* The counters and actions of the summary                            *)
(* ------------------------------------------------------------------ *)

\* the counters count the pairs created and the annotations inserted, skipped
\* is 0, the actions are of the three kinds, and a topic marked "comment" or
\* "both" has an annotation
C22_Inv ==
    /\ 2 * Summary.applied = Len(written)
    /\ Summary.comments = Len(annotated)
    /\ Summary.skipped = 0
    /\ \A n \in 1..Len(Summary.section_actions) :
           /\ Summary.section_actions[n].v \in {"redline", "comment", "both"}
           /\ Summary.section_actions[n].v \in {"comment", "both"}
              => HasAnnotation(Summary.section_actions[n].k)

\* a topic becomes "redline" or "both" from neither only in the step of a
\* request of that topic that rewrites a block, and applied rises by the
\* number of blocks the step rewrites
C22_Step ==
    /\ 2 * (applied' - applied) = Len(written') - Len(written)
    /\ \A sec \in Topics :
           (/\ ActionOf(section_actions, sec) \notin {"redline", "both"}
            /\ ActionOf(section_actions', sec) \in {"redline", "both"})
           => /\ pc = "apply"
              /\ redlines[idx].section = sec
              /\ Len(written') > Len(written)
              /\ Records(Blocks') # Records(Blocks)

\* C22: at return of apply_redlines (and at every point before), applied is
\* the number of deletion/insertion pairs created, one per rewritten block,
\* comments is the number of annotation blocks inserted by the fallback and
\* the standing-review pass, skipped is 0, every value of section_actions is
\* "redline", "comment" or "both", a topic is "redline" or "both" only if a
\* block was rewritten for it and "comment" or "both" only if an annotation
\* was inserted for it
C22_SummaryCounts == [](C22_Inv) /\ [][C22_Step]_vars

\* returned with a rewritten table cell, an annotation, and a topic marked both
C22_Witness ==
    /\ Returned
    /\ applied >= 2 /\ comments >= 1
    /\ \E n \in 1..Len(saved.cells) : \E m \in 1..Len(saved.cells[n]) :
           saved.cells[n][m].kind = "del"
    /\ \E n \in 1..Len(section_actions) : section_actions[n].v = "both"

(* ------------------------------------------------------------------ *)
(* Additional issues                                                  *)
(* ------------------------------------------------------------------ *)

\* the text an additional issue is rendered with holds its title in capitals
\* (the default title when it has none) and its concern
RendersItem(para, ai_item) ==
    /\ Len(para) = 1 /\ para[1].kind = "r"
    /\ StartsWith(para[1].text,
                  <<"FLAG", " ">>
                  \o Upper(IF ai_item.title # <<>> THEN ai_item.title ELSE DEFAULT_TITLE)
                  \o <<":", " ">> \o ai_item.concern)

\* the step of the additional-issues block
C23_Step ==
    pc = "additional"
    => /\ applied' = applied /\ comments' = comments
       /\ section_actions' = section_actions
       /\ section_positions' = section_positions
       /\ change_id' = change_id /\ written' = written
       /\ cells' = cells
       /\ SubSeq(paras', 1, Len(paras)) = paras
       /\ IF additional_issues = <<>>
          THEN paras' = paras
          ELSE /\ Len(paras') = Len(paras) + 1 + Len(additional_issues)
               /\ RunText(paras'[Len(paras) + 1]) = ADDITIONAL_HEADER
               /\ \A n \in 1..Len(additional_issues) :
                      RendersItem(paras'[Len(paras) + 1 + n], additional_issues[n])

\* no other step adds a block for the additional issues
C23_Elsewhere ==
    pc # "additional"
    => \A n \in 1..Len(paras') :
           (\E m \in 1..Len(additional_issues) : RendersItem(paras'[n], additional_issues[m]))
           => n <= Len(paras) /\ \E m \in 1..Len(additional_issues) :
                                     RendersItem(paras[n], additional_issues[m])

\* C23: additional issues are only appended: when the list is non-empty one
\* header block and then one block per additional issue, in input order, are
\* added after every existing block; they are never matched against document
\* text and leave applied, comments, section_actions and section_positions
\* unchanged; an empty list adds no block
C23_AdditionalAppended == [][C23_Step /\ C23_Elsewhere]_vars

\* two additional issues were appended to a document with a rewritten
\* paragraph and an annotation
C23_Witness ==
    /\ pc = "rescan"
    /\ Len(additional_issues) = 2
    /\ applied >= 1 /\ comments >= 1
    /\ Len(saved.paras) >= 5
    /\ RendersItem(saved.paras[Len(saved.paras)], additional_issues[2])
    /\ RendersItem(saved.paras[Len(saved.paras) - 1], additional_issues[1])

\* C24: two invocations of apply_redlines that run concurrently on their own
\* files do not interfere.  Under every interleaving each invocation writes
\* the change IDs 1, 2, ... of its own counter and returns the summary
\* (applied, comments, section_actions, section_positions) that it returns
\* when it runs alone, and a step of one invocation leaves the locals of the
\* other one as they are.

\* what the invocations of JobCatalogue return when no second one was started
SoloReturn ==
    << [applied |-> 1, comments |-> 1, skipped |-> 0,
        section_actions |-> <<[k |-> <<"R","e","n","t">>, v |-> "both"]>>,
        section_positions |-> (<<"R","e","n","t">> :> 0)],
       [applied |-> 1, comments |-> 1, skipped |-> 0,
        section_actions |-> <<[k |-> <<"T","a","x",":","A">>, v |-> "both"]>>,
        section_positions |-> (<<"T","a","x",":","A">> :> 999998)],
       [applied |-> 4, comments |-> 0, skipped |-> 0,
        section_actions |-> <<[k |-> <<"R","e","n","t">>, v |-> "redline"]>>,
        section_positions |-> (<<"R","e","n","t">> :> 0)] >>

\* the summary that the invocation with the locals s returns
SummaryOf(s) ==
    [applied |-> s.applied, comments |-> s.comments, skipped |-> 0,
     section_actions |-> s.section_actions,
     section_positions |-> s.section_positions]

\* the invocation with the locals s, started for job j, is where it would be
\* alone: its IDs are those of its own counter and what it returns is what
\* it returns alone
AsAlone(s, j) ==
    /\ s.written = [k \in 1..(2 * s.applied) |-> k]
    /\ s.change_id = 1 + 2 * s.applied
    /\ s.redlines = JobCatalogue[j].redlines
    /\ s.input_paras = JobCatalogue[j].input_paras
    /\ s.pc = "done" => SummaryOf(s) = SoloReturn[j]

C24_Inv ==
    call.op = "concurrent" =>
        /\ AsAlone(Snapshot, call.jobs[call.running])
        /\ Len(call.jobs) = 2 => AsAlone(call.other, call.jobs[3 - call.running])

\* a step is a step of the running invocation, or the scheduler's
C24_Step ==
    \/ call'.other = call.other /\ call'.running = call.running
    \/ /\ call'.other = Snapshot
       /\ call'.running = 3 - call.running
       /\ Snapshot' = call.other

C24_NoInterference == [](C24_Inv) /\ [][C24_Step]_vars

\* both invocations have rewritten a block with the IDs 1 and 2 and neither
\* has returned: the second one ran between two steps of the first
C24_Witness ==
    /\ call.op = "concurrent"
    /\ Len(call.jobs) = 2
    /\ call.jobs[1] # call.jobs[2]
    /\ pc \in {"apply", "review"}
    /\ call.other.pc \in {"apply", "review"}
    /\ applied >= 1
    /\ call.other.applied >= 1
    /\ call.running = 1

\* the blocks, in document order (1-based), that the step has rewritten
RewrittenBlocks == {n \in 1..Len(Blocks) : Blocks'[n] # Blocks[n]}

\* C25: when a redline request matches, the position recorded for its topic
\* after the request is the 0-based index of the first block, in document
\* order (body paragraphs, then the paragraphs of the table cells), where
\* the match succeeded, also when that block is a paragraph of a table cell.
C25_FirstMatchPosition ==
    [][(pc = "apply" /\ Len(written') > Len(written)) =>
          LET sec == redlines[idx].section IN
          /\ RewrittenBlocks # {}
          /\ sec \in DOMAIN section_positions'
          /\ \A n \in RewrittenBlocks :
                 (\A m \in RewrittenBlocks : n <= m)
                     => section_positions'[sec] = n - 1]_vars

\* the text sub stands in the text s at the 0-based offset k
OccursAt(sub, s, k) == k + Len(sub) <= Len(s) /\ SubSeq(s, k + 1, k + Len(sub)) = sub

Occurs(sub, s) == \E k \in 0..Len(s) : OccursAt(sub, s, k)

\* the rewritten block r splits the text into unchanged-before, the deleted
\* text del at its first occurrence, and unchanged-after
SplitsAtFirst(r, text, del) ==
    \E k \in 0..Len(text) :
        /\ OccursAt(del, text, k)
        /\ \A j \in 0..(k - 1) : ~OccursAt(del, text, j)
        /\ RunText(r) = SubSeq(text, 1, k) \o SubSeq(text, k + Len(del) + 1, Len(text))
        /\ DelText(r) = del
        /\ \E n \in 1..Len(r) :
               /\ r[n].kind = "del"
               /\ RunText(SubSeq(r, 1, n)) = SubSeq(text, 1, k)

\* the text of the block apart from what the insertions add
KeptAndDeleted(para) ==
    Join([n \in 1..Len(para) |-> IF para[n].kind # "ins" THEN para[n].text ELSE <<>>])

\* C26: _apply_to_para matches the find text exactly where the block's text
\* holds it, otherwise the whitespace-collapsed find text in the
\* whitespace-collapsed block text, and otherwise leaves the block and the
\* counter as they are and reports found = false.  A rewritten block is
\* unchanged-before + deletion + insertion + unchanged-after, the deleted
\* text being the first occurrence of the find text; before + deleted + after
\* is the original text of the block (whitespace-collapsed after a
\* normalized match), the inserted text is the replacement, and no other
\* text of the block is added or lost.
C26_ExactThenNormalized ==
    (call.op = "apply_to_para" /\ result # NoResult) =>
        LET r         == result[1]
            full      == RunText(call.para)
            norm_full == Normalize(full)
            norm_find == Normalize(call.find_text)
            ins       == Join([n \in 1..Len(r.para) |->
                                  IF r.para[n].kind = "ins" THEN r.para[n].text ELSE <<>>])
        IN  IF Occurs(call.find_text, full)
            THEN /\ r.ok
                 /\ r.change_id = call.change_id + 2
                 /\ SplitsAtFirst(r.para, full, call.find_text)
                 /\ ins = call.replace_text
                 /\ KeptAndDeleted(r.para) = IterText(call.para)
            ELSE IF Occurs(norm_find, norm_full)
            THEN /\ r.ok
                 /\ r.change_id = call.change_id + 2
                 /\ SplitsAtFirst(r.para, norm_full, norm_find)
                 /\ ins = call.replace_text
                 /\ KeptAndDeleted(r.para) = Normalize(IterText(call.para))
            ELSE r = [para |-> call.para, change_id |-> call.change_id, ok |-> FALSE]

\* the request has no find text, no replacement, or a replacement equal to
\* the find text, all after trimming
IsSkipped(r) ==
    \/ Blank(r.find)
    \/ Blank(r.replace)
    \/ \E lead, trail \in 0..Len(r.find) :
           /\ lead + trail < Len(r.find)
           /\ Blank(SubSeq(r.find, 1, lead))
           /\ Blank(SubSeq(r.find, Len(r.find) - trail + 1, Len(r.find)))
           /\ SubSeq(r.find, lead + 1, Len(r.find) - trail) = Strip(r.replace)
           /\ r.find[lead + 1] \notin WhiteSpace
           /\ r.find[Len(r.find) - trail] \notin WhiteSpace

AnnotationsOf(sec) == {n \in 1..Len(annotated) : annotated[n].section = sec}

\* the blocks of the document that carry the marker of the topic
MarkedBlocks(sec) == {n \in 1..Len(paras) : IsAnnotationOf(paras[n], sec)}

\* the topics for which an annotation was recorded
CommentTopics == {sec \in Topics : ActionOf(section_actions, sec) \in {"comment", "both"}}

C28_Inv ==
    /\ \A sec \in Topics :
           /\ Cardinality(AnnotationsOf(sec)) <= 1
           /\ Cardinality(MarkedBlocks(sec)) <= 1
    /\ comments = Cardinality(CommentTopics)
    /\ comments = Len(annotated)

\* a review item that passed, or whose priority is neither High nor Medium,
\* is passed over by the standing-review pass
C28_Step ==
    (/\ pc = "review"
     /\ \/ issues[idx].status = "pass"
        \/ issues[idx].priority \notin {"High", "Medium"})
        => /\ paras' = paras
           /\ annotated' = annotated
           /\ comments' = comments
           /\ section_actions' = section_actions

\* C28: in one invocation each topic receives at most one annotation block
\* from the fallback and the standing-review pass together, in whatever
\* order and however often requests and review items name it, so comments is
\* the number of topics whose action is "comment" or "both"; a review item
\* with status pass, or with a priority other than High or Medium, causes no
\* annotation in the standing-review pass.
C28_OneAnnotationPerTopic == [](C28_Inv) /\ [][C28_Step]_vars

\* the invocation has returned; the topic was named by two requests whose
\* find text is absent and by two review items that ask for an annotation,
\* after one that passed, and holds one annotation
C28_Witness ==
    /\ Returned
    /\ Len(redlines) = 2
    /\ Len(issues) = 2
    /\ redlines[1].section = Rent
    /\ redlines[2].section = Rent
    /\ input_paras = <<>>
    /\ issues[1].status = "pass"
    /\ issues[2] = IssueCatalogue[1]
    /\ Cardinality(AnnotationsOf(Rent)) = 1
    /\ comments = 1

\* the topic name stands in the text, whatever the case of the letters
NamedIn(name, text) == Occurs(Lower(name), Lower(text))

\* the score of block n (0-based) of the call
CallScore(n) ==
    CommentConfidence(RunText(call.paras[n + 1]), call.section_name,
                      Keywords(call.section_name))

\* the blocks of the call that are not empty
CallBlocks == {n \in 0..(Len(call.paras) - 1) : ~Blank(RunText(call.paras[n + 1]))}

Settled(job_id) == job_id \in DOMAIN JOBS /\ JOBS[job_id].status \in {"done", "error"}

C30_Inv ==
    \A job_id \in DOMAIN JOBS :
        /\ JOBS[job_id].status \in {"processing", "done", "error"}
        /\ JOBS[job_id].status = "done" =>
               /\ JOBS[job_id].result # Null
               /\ JOBS[job_id].redlined_path # Null

C30_Step ==
    /\ \A job_id \in DOMAIN JOBS' \ DOMAIN JOBS : JOBS'[job_id].status = "processing"
    /\ \A job_id \in DOMAIN JOBS :
           /\ job_id \in DOMAIN JOBS'
           /\ \/ JOBS'[job_id].status = JOBS[job_id].status
              \/ /\ JOBS[job_id].status = "processing"
                 /\ JOBS'[job_id].status \in {"done", "error"}
           /\ (thread[job_id] \in DOMAIN ProgressText /\ thread'[job_id] # thread[job_id])
                  => JOBS'[job_id] = [JOBS[job_id] EXCEPT !.progress = JOBS'[job_id].progress]
    /\ (response' # response /\ response'.route # "analyze") => JOBS' = JOBS /\ thread' = thread

\* C30: every review job that analyze creates starts with the status
\* "processing" and, its thread's calls returning or raising, eventually has
\* the status "done" or "error"; the status changes only from processing to
\* done or from processing to error and never again afterwards; a progress
\* update changes nothing but the progress text; a job with the status
\* "done" has a result and a redlined_path; status, results and download
\* requests, at any moment, change no job.
C30_JobLifecycle ==
    /\ [](C30_Inv)
    /\ [][C30_Step]_vars
    /\ \A job_id \in 1..MaxJobs : (job_id \in DOMAIN JOBS) ~> Settled(job_id)

\* one job is done and persisted, the other has failed after its last
\* progress update, both threads have ended, and the results of the first
\* were requested
C30_Witness ==
    /\ Len(JOBS) = 2
    /\ JOBS[1].status = "done"
    /\ JOBS[1].redlined_path = "redlined.docx"
    /\ JOBS[2].status = "error"
    /\ JOBS[2].progress = ProgressText.applying
    /\ thread = <<"ended", "ended">>
    /\ response = [route |-> "results", body |-> "result"]

====
